---- MODULE Spec2Model ----
(***************************************************************************)
(* Channel plugin kernel of agent-zero-plus.                               *)
(*                                                                         *)
(* Part 1: the pairing-based DM access control of the Discord adapter      *)
(*   plugins/discord_channel/pairing.py   PairingRequest, PairingManager   *)
(*   plugins/discord_channel/bot.py       DiscordChannelAdapter.on_message *)
(*   plugins/discord_channel/commands.py  /a0 approve                      *)
(*   python/helpers/lifecycle_reactions.py  DMPolicy, check_dm_access      *)
(*   plugins/discord_channel/thread_manager.py  bind, get_binding, touch   *)
(*                                                                         *)
(* User ids are the decimal strings Discord hands out; they are modelled   *)
(* as the integers 1..MaxUsers, whose order is the order sorted() gives    *)
(* one-digit strings.  Pairing codes are strings over _SAFE_CHARS and are  *)
(* modelled as sequences of one-character strings, so that upper() and     *)
(* strip() are computed character by character.  The clock is time.time()  *)
(* in seconds.                                                             *)
(***************************************************************************)
EXTENDS Integers, Sequences, FiniteSets, TLC

(* ------------------------------ bounds --------------------------------- *)

\* user ids 1..MaxUsers
MaxUsers == 2
\* DM / thread channel ids 1..MaxChannels
MaxChannels == 2
\* length of a generated code (code_length; the program's default is 8)
CodeLength == 1
\* longest string handed to approve_code / deny_code
MaxInputLen == 2
\* largest max_pending_per_channel the constructor is given
MaxPendingBound == 2
\* the clock advances in steps of TickStep seconds up to MaxTime
TickStep == 3600
MaxTime == 7200
\* largest message_count a binding reaches
MaxMessageCount == 1
\* the largest TTL of the thread bindings, in hours
MaxTTLHours == 2
\* the most failed reconnects in a row
MaxFailures == 7
\* the largest max_retries_per_model
MaxRetriesPerModel == 2
\* the most adapter instances the plugins create
MaxInstances == 4

(* --------------------------- program constants ------------------------- *)

\* PairingRequest.__post_init__: expires_at = created_at + 3600
RequestTTL == 3600
\* PairingManager.__init__: code_ttl_seconds: int = 3600
DefaultCodeTTL == 3600

\* a sample of _SAFE_CHARS = "ABCDEFGHJKLMNPQRSTUVWXYZ23456789"
SAFE_CHARS == {"A", "B"}
\* characters a caller may type: the sample, a lower-case letter, a blank
InputChars == SAFE_CHARS \cup {"a", " "}

Users == 1..MaxUsers
Channels == 1..MaxChannels
\* owner_user_id = None
NoUser == 0
Policies == {"open", "owner", "pairing", "disabled"}

\* Optional[...] results: None is the empty tuple, a value v is <<v>>
None == << >>
Some(v) == <<v>>

(* ------------------------------ state ---------------------------------- *)

VARIABLES
    now,            \* time.time()
    policy,         \* PairingManager.policy
    owner_user_id,  \* PairingManager.owner_user_id
    max_pending,    \* PairingManager._max_pending
    pending,        \* PairingManager._pending: code -> PairingRequest
    allowlist,      \* PairingManager._allowlist
    blocklist,      \* PairingManager._blocklist
    file,           \* data/discord-allowFrom.json
    dm_policy,      \* lifecycle_reactions._channel_dm_policies.get("discord", DMPolicy())
    bindings,       \* ThreadBindingManager._bindings: thread id -> ThreadBinding
    respond_to_dms,         \* DiscordChannelAdapter.respond_to_dms
    respond_to_mentions,    \* DiscordChannelAdapter.respond_to_mentions
    disk_writable,  \* whether writes to the data directory succeed
    delivered,      \* the ChannelMessage the last operation handed to the
                    \* host handler, if any
    call,           \* the operation that ran last, the branch it took and
                    \* whether it wrote the allowlist file
    ttl_hours,      \* ThreadBindingManager._ttl_hours
    react_fn,       \* whether LifecycleTracker._react_fn is set
    unreact_fn,     \* whether LifecycleTracker._unreact_fn is set
    current_phase,  \* LifecycleTracker._current_phase
    reactions,      \* the callback invocations the last phase() call made
    sent,           \* what the last adapter send_message call did
    reconnect,      \* an adapter's reconnect loop: _reconnect_delay and link
    failover,       \* what the last call_with_failover call did
    loader,         \* PluginLoader: _channels, the adapter instances, _started
    code_ttl,       \* PairingManager._code_ttl
    cleanup_task,   \* ThreadBindingManager._cleanup_task: where the task is
    webhook         \* the generic webhook: environment, adapter, last POST

vars == <<now, policy, owner_user_id, max_pending, pending, allowlist,
          blocklist, file, dm_policy, bindings, respond_to_dms,
          respond_to_mentions, disk_writable, delivered, call, ttl_hours,
          react_fn, unreact_fn, current_phase, reactions, sent, reconnect,
          failover, loader, code_ttl, cleanup_task, webhook>>

config == <<policy, owner_user_id, max_pending, dm_policy, respond_to_dms,
            respond_to_mentions, disk_writable, ttl_hours, react_fn,
            unreact_fn, code_ttl>>
tracker == <<current_phase, reactions>>
services == <<sent, reconnect, failover, loader, cleanup_task, webhook>>
pairingState == <<pending, allowlist, blocklist, file>>

(* --------------------------- pure helpers ------------------------------ *)

\* all strings over a character set of length lo..hi
StringsOver(chars, lo, hi) ==
    UNION {[1..n -> chars] : n \in lo..hi}

\* the strings generate_code can return
Codes == StringsOver(SAFE_CHARS, CodeLength, CodeLength)

\* the strings a caller can pass as a code
InputCodes == StringsOver(InputChars, 0, MaxInputLen)

\* str.upper() on one character
UpperChar(ch) ==
    CASE ch = "a" -> "A"
      [] ch = "b" -> "B"
      [] OTHER -> ch

\* str.upper()
Upper(s) == [i \in DOMAIN s |-> UpperChar(s[i])]

IsSpace(ch) == ch = " "

\* str.strip(): drop leading and trailing whitespace
Strip(s) ==
    LET kept == {i \in DOMAIN s : ~IsSpace(s[i])}
    IN  IF kept = {} THEN << >>
        ELSE LET lo == CHOOSE i \in kept : \A j \in kept : i <= j
                 hi == CHOOSE i \in kept : \A j \in kept : j <= i
             IN  SubSeq(s, lo, hi)

\* code.upper().strip()
NormalizeCode(code) == Strip(Upper(code))

\* sorted(set)
RECURSIVE Sorted(_)
Sorted(S) ==
    IF S = {} THEN << >>
    ELSE LET m == CHOOSE x \in S : \A y \in S : x <= y
         IN  <<m>> \o Sorted(S \ {m})

\* set(list)
ToSet(s) == {s[i] : i \in DOMAIN s}

(* ----------------------------- PairingRequest -------------------------- *)

\* PairingRequest(code, sender_id, sender_name, channel_id) created at time t.
\* sender_name is display text only and is left out.
PairingRequest(code, sender, channel, t) ==
    [code |-> code, sender_id |-> sender, channel_id |-> channel,
     created_at |-> t, expires_at |-> t + RequestTTL]

\* PairingRequest.is_expired at time t
IsExpiredStrict(req, t) == t > req.expires_at
IsExpired(req, t) == t >= req.expires_at

(* ----------------------------- PairingManager -------------------------- *)

\* PairingManager.is_authorized
IsAuthorizedBlockFirst(user) ==
    CASE policy = "open" -> TRUE
      [] policy = "disabled" -> FALSE
      [] policy = "owner" -> user = owner_user_id
      [] policy = "pairing" ->
            IF user = owner_user_id THEN TRUE
            ELSE IF user \in blocklist THEN FALSE
            ELSE IF user \in allowlist THEN TRUE
            ELSE FALSE
      [] OTHER -> FALSE
IsAuthorized(user) ==
    CASE policy = "open" -> TRUE
      [] policy = "disabled" -> FALSE
      [] policy = "owner" -> user = owner_user_id
      [] policy = "pairing" ->
            IF user = owner_user_id THEN TRUE
            ELSE IF user \in allowlist THEN TRUE
            ELSE IF user \in blocklist THEN FALSE
            ELSE FALSE
      [] OTHER -> FALSE

\* PairingManager._cleanup_expired at time t
CleanupExpired(p, t) ==
    [c \in {c \in DOMAIN p : ~IsExpired(p[c], t)} |-> p[c]]

\* the document _save_allowlist writes
Document(allowed, blocked) ==
    [exists |-> TRUE, allowed |-> Sorted(allowed), blocked |-> Sorted(blocked)]

NoFile == [exists |-> FALSE, allowed |-> << >>, blocked |-> << >>]

\* PairingManager._load_allowlist: the two sets read from the file
LoadAllowed(f) == IF f.exists THEN ToSet(f.allowed) ELSE {}
LoadBlocked(f) == IF f.exists THEN ToSet(f.blocked) ELSE {}

\* path.write_text either succeeds or raises, and the exception is logged
WriteOutcomes == IF disk_writable THEN {"ok"} ELSE {"fail"}

\* PairingManager._save_allowlist with the sets as they are when it is called:
\* the file afterwards.  A failed write is logged and leaves the old file.
SaveAllowlist(allowed, blocked, outcome) ==
    IF outcome = "ok" THEN Document(allowed, blocked) ELSE file

\* create_request: "Already has pending request?"
HasPendingRequestInverted(sender) ==
    \E c \in DOMAIN pending :
        pending[c].sender_id = sender /\ IsExpired(pending[c], now)
HasPendingRequest(sender) ==
    \E c \in DOMAIN pending :
        pending[c].sender_id = sender /\ ~IsExpired(pending[c], now)

\* create_request: the non-expired requests of a channel among p
ChannelPending(p, channel) ==
    Cardinality({c \in DOMAIN p :
                    p[c].channel_id = channel /\ ~IsExpired(p[c], now)})

\* create_request: "Check channel limits"
ChannelAtLimitOffByOne(p, channel) == ChannelPending(p, channel) > max_pending
ChannelAtLimit(p, channel) == ChannelPending(p, channel) >= max_pending

\* create_request: generate_code() until the code is not in _pending.  The
\* loop ends with any code that is not a key of p (and does not end when
\* every code is one).
AnyCode(p) == Codes
FreshCodes(p) == Codes \ DOMAIN p

\* the dict after d[key] = value
Store(d, key, value) == (key :> value) @@ d

\* the dict after del d[key]
Delete(d, key) == [k \in DOMAIN d \ {key} |-> d[k]]

\* What a PairingManager method leaves and returns: the pending dict, the two
\* lists and the file afterwards, the return value, the branch taken and
\* whether the file was written ("none": no write attempted).
Outcome(p, allowed, blocked, f, result, path, saved) ==
    [pending |-> p, allowlist |-> allowed, blocklist |-> blocked, file |-> f,
     ret |-> result, path |-> path, saved |-> saved]

\* a method returns without having changed anything
Unchanged(result, path) ==
    Outcome(pending, allowlist, blocklist, file, result, path, "none")

\* PairingManager.create_request(sender, _, channel)
CreateRequestOutcomesCleanFirst(sender, channel) ==
    LET cleaned == CleanupExpired(pending, now)
    IN  IF IsAuthorized(sender) \/ HasPendingRequest(sender)
           \/ ChannelAtLimit(cleaned, channel)
        THEN {Outcome(cleaned, allowlist, blocklist, file, None, "refused",
                      "none")}
        ELSE {Outcome(Store(cleaned, code,
                            PairingRequest(code, sender, channel, now)),
                      allowlist, blocklist, file,
                      Some(PairingRequest(code, sender, channel, now)),
                      "created", "none") : code \in FreshCodes(cleaned)}
CreateRequestOutcomesRefusingBlocked(sender, channel) ==
    IF IsAuthorized(sender) \/ sender \in blocklist
    THEN {Unchanged(None, "authorized")}
    ELSE IF HasPendingRequest(sender)
    THEN {Unchanged(None, "duplicate")}
    ELSE LET cleaned == CleanupExpired(pending, now)
         IN  IF ChannelAtLimit(cleaned, channel)
             THEN {Outcome(cleaned, allowlist, blocklist, file, None, "limit",
                           "none")}
             ELSE {Outcome(Store(cleaned, code,
                                 PairingRequest(code, sender, channel, now)),
                           allowlist, blocklist, file,
                           Some(PairingRequest(code, sender, channel, now)),
                           "created", "none") : code \in FreshCodes(cleaned)}
CreateRequestOutcomes(sender, channel) ==
    IF IsAuthorized(sender)
    THEN {Unchanged(None, "authorized")}
    ELSE IF HasPendingRequest(sender)
    THEN {Unchanged(None, "duplicate")}
    ELSE LET cleaned == CleanupExpired(pending, now)
         IN  IF ChannelAtLimit(cleaned, channel)
             THEN {Outcome(cleaned, allowlist, blocklist, file, None, "limit",
                           "none")}
             ELSE {Outcome(Store(cleaned, code,
                                 PairingRequest(code, sender, channel, now)),
                           allowlist, blocklist, file,
                           Some(PairingRequest(code, sender, channel, now)),
                           "created", "none") : code \in FreshCodes(cleaned)}

\* approve_code from "Approve!" on, for the request stored under key
Approved(key) ==
    LET request == pending[key]
        allowed == allowlist \cup {request.sender_id}
    IN  {Outcome(Delete(pending, key), allowed, blocklist,
                 SaveAllowlist(allowed, blocklist, w), Some(request),
                 "approved", w) : w \in WriteOutcomes}

\* PairingManager.approve_code(code)
ApproveCodeOutcomesPurging(code) ==
    LET key == NormalizeCode(code)
        cleaned == CleanupExpired(pending, now)
    IN  IF key \notin DOMAIN cleaned
        THEN {Outcome(cleaned, allowlist, blocklist, file, None, "missing",
                      "none")}
        ELSE Approved(key)
ApproveCodeOutcomes(code) ==
    LET key == NormalizeCode(code)
    IN  IF key \notin DOMAIN pending
        THEN {Unchanged(None, "missing")}
        ELSE IF IsExpired(pending[key], now)
        THEN {Outcome(Delete(pending, key), allowlist, blocklist, file, None,
                      "expired", "none")}
        ELSE Approved(key)

\* PairingManager.deny_code(code)
DenyCodeOutcomes(code) ==
    LET key == NormalizeCode(code)
    IN  IF key \in DOMAIN pending
        THEN {Outcome(Delete(pending, key), allowlist, blocklist, file,
                      Some(pending[key]), "denied", "none")}
        ELSE {Unchanged(None, "missing")}

\* PairingManager.revoke(user) run with the blocklist being blocked
RevokeFrom(user, blocked) ==
    IF user \in allowlist
    THEN {Outcome(pending, allowlist \ {user}, blocked,
                  SaveAllowlist(allowlist \ {user}, blocked, w), TRUE,
                  "revoked", w) : w \in WriteOutcomes}
    ELSE {Outcome(pending, allowlist, blocked, file, FALSE, "absent", "none")}

\* PairingManager.revoke(user)
RevokeOutcomes(user) == RevokeFrom(user, blocklist)

\* PairingManager.block(user): add to the blocklist, then revoke(user); block
\* itself returns nothing
BlockOutcomes(user) ==
    {[o EXCEPT !.ret = None] : o \in RevokeFrom(user, blocklist \cup {user})}

Call(op, path, saved) == [op |-> op, path |-> path, saved |-> saved]

(* ------------------------- PairingManager actions ---------------------- *)

\* a PairingManager method has run with outcome o
Apply(op, o) ==
    /\ pending' = o.pending
    /\ allowlist' = o.allowlist
    /\ blocklist' = o.blocklist
    /\ file' = o.file
    /\ call' = Call(op, o.path, o.saved)
    /\ delivered' = None
    /\ UNCHANGED <<now, config, bindings, tracker, services>>

\* pm.create_request(sender_id, sender_name, channel_id)
CreateRequest(sender, channel) ==
    \E o \in CreateRequestOutcomes(sender, channel) : Apply("create_request", o)

\* pm.approve_code(code)
ApproveCode(code) ==
    \E o \in ApproveCodeOutcomes(code) : Apply("approve_code", o)

\* pm.deny_code(code)
DenyCode(code) ==
    \E o \in DenyCodeOutcomes(code) : Apply("deny_code", o)

\* pm.revoke(user_id)
Revoke(user) ==
    \E o \in RevokeOutcomes(user) : Apply("revoke", o)

\* pm.block(user_id)
Block(user) ==
    \E o \in BlockOutcomes(user) : Apply("block", o)

\* time passes
Tick ==
    /\ now + TickStep <= MaxTime
    /\ now' = now + TickStep
    /\ call' = Call("tick", "", "none")
    /\ delivered' = None
    /\ UNCHANGED <<config, pairingState, bindings, tracker, services>>

(* ------------------------ DM policy registry --------------------------- *)

\* lifecycle_reactions.check_dm_access("discord", user)
CheckDmAccess(user) ==
    CASE dm_policy.mode = "none" -> FALSE
      [] dm_policy.mode = "all" -> TRUE
      [] dm_policy.mode = "allowlist" -> user \in ToSet(dm_policy.allow_from)
      [] dm_policy.mode = "owner_only" ->
            Len(dm_policy.allow_from) > 0 /\ user = dm_policy.allow_from[1]
      [] OTHER -> TRUE

(* ------------------------- ThreadBindingManager ------------------------ *)

\* no guild (a DM) and the sub-agent targets
NoGuild == 0
Targets == {"agent", "coder"}

\* ThreadBinding(thread_id, target, user_id, guild_id) created at time t;
\* the free-form metadata is left out
ThreadBinding(thread, target, user, guild, t) ==
    [thread_id |-> thread, target |-> target, user_id |-> user,
     guild_id |-> guild, created_at |-> t, last_active |-> t,
     message_count |-> 0]

\* ThreadBindingManager.get_binding
GetBinding(thread) ==
    IF thread \in DOMAIN bindings THEN Some(bindings[thread]) ELSE None

\* ThreadBindingManager.touch -> ThreadBinding.touch: the dict afterwards
Touch(thread) ==
    IF thread \in DOMAIN bindings
    THEN [bindings EXCEPT ![thread].last_active = now,
                          ![thread].message_count = @ + 1]
    ELSE bindings

\* the guild a thread lives in: thread 1 in guild 1, the others in none
Guilds == {1}
GuildOf(thread) == IF thread = 1 THEN 1 ELSE NoGuild

\* 3600, the seconds of an hour in ThreadBinding.is_expired
SecondsPerHour == 3600

\* ThreadBinding.is_expired(ttl_hours) at time t:
\* (t - last_active) / 3600 >= ttl_hours, never for ttl_hours <= 0
BindingIsExpiredStrict(b, ttl, t) ==
    IF ttl <= 0 THEN FALSE ELSE t - b.last_active > ttl * SecondsPerHour
BindingIsExpired(b, ttl, t) ==
    IF ttl <= 0 THEN FALSE ELSE t - b.last_active >= ttl * SecondsPerHour

\* ThreadBindingManager.bind: the dict afterwards
BindThreadKeepingCount(thread, target, user, guild) ==
    IF thread \in DOMAIN bindings
    THEN [bindings EXCEPT ![thread].target = target, ![thread].user_id = user,
                          ![thread].guild_id = guild]
    ELSE Store(bindings, thread,
               ThreadBinding(thread, target, user, guild, now))
BindThread(thread, target, user, guild) ==
    Store(bindings, thread, ThreadBinding(thread, target, user, guild, now))

\* ThreadBindingManager.unbind: the dict afterwards (pop with a default)
UnbindThread(thread) ==
    IF thread \in DOMAIN bindings THEN Delete(bindings, thread) ELSE bindings

\* ThreadBindingManager.get_binding: the dict afterwards
AfterGetBindingTouching(thread) == Touch(thread)
AfterGetBinding(thread) == bindings

\* ThreadBindingManager.list_bindings(guild_id, user_id): the bindings
\* returned (their order is left out); a falsy filter selects everything
ListBindings(guild, user) ==
    {b \in {bindings[k] : k \in DOMAIN bindings} :
        /\ guild # NoGuild => b.guild_id = guild
        /\ user # NoUser => b.user_id = user}

\* ThreadBindingManager.get_bindings_for_target(target)
GetBindingsForTarget(target) ==
    {b \in {bindings[k] : k \in DOMAIN bindings} : b.target = target}

\* ThreadBindingManager.get_targets()
GetTargets == {bindings[k].target : k \in DOMAIN bindings}

\* ThreadBindingManager.count()
Count == Cardinality(DOMAIN bindings)

\* ThreadBindingManager.expire_stale: the thread ids it pops
StaleThreads ==
    IF ttl_hours <= 0
    THEN {}
    ELSE {k \in DOMAIN bindings : BindingIsExpired(bindings[k], ttl_hours, now)}

\* ThreadBindingManager.expire_stale: the dict afterwards
ExpireStale == [k \in DOMAIN bindings \ StaleThreads |-> bindings[k]]

\* an operation of the thread manager has run and left the dict b
ApplyThreads(op, path, b) ==
    /\ bindings' = b
    /\ call' = Call(op, path, "none")
    /\ delivered' = None
    /\ UNCHANGED <<now, config, pairingState, tracker, services>>

\* thread_manager.unbind(thread_id)
Unbind(thread) ==
    ApplyThreads("unbind",
                 IF thread \in DOMAIN bindings THEN "removed" ELSE "unbound",
                 UnbindThread(thread))

\* thread_manager.get_binding(thread_id)
GetBindingCall(thread) ==
    ApplyThreads("get_binding",
                 IF GetBinding(thread) = None THEN "unbound" ELSE "found",
                 AfterGetBinding(thread))

\* thread_manager.touch(thread_id)
TouchCall(thread) ==
    /\ thread \in DOMAIN bindings
          => bindings[thread].message_count < MaxMessageCount
    /\ ApplyThreads("touch",
                    IF thread \in DOMAIN bindings THEN "touched" ELSE "unbound",
                    Touch(thread))

\* thread_manager.list_bindings(guild_id, user_id)
ListBindingsCall(guild, user) ==
    ApplyThreads("list_bindings",
                 IF ListBindings(guild, user) = {} THEN "empty" ELSE "some",
                 bindings)

\* thread_manager.get_bindings_for_target(target)
GetBindingsForTargetCall(target) ==
    ApplyThreads("get_bindings_for_target",
                 IF GetBindingsForTarget(target) = {} THEN "empty" ELSE "some",
                 bindings)

\* thread_manager.get_targets()
GetTargetsCall ==
    ApplyThreads("get_targets",
                 IF GetTargets = {} THEN "empty" ELSE "some", bindings)

\* thread_manager.expire_stale()
Sweep ==
    ApplyThreads("expire_stale",
                 IF StaleThreads = {} THEN "kept" ELSE "expired", ExpireStale)

\* task.cancel() on a loop task that is waiting in an await: inside the try
\* block the CancelledError is caught ("except asyncio.CancelledError: break")
\* and the task returns; in the sleep of an "except Exception" handler it
\* leaves the coroutine and the task ends cancelled
CancelTaskSwallowing(at) == IF at = "try" THEN "returned" ELSE "running"
CancelTask(at) == IF at = "try" THEN "returned" ELSE "cancelled"

\* the cleanup task has moved on to position task, leaving the dict b;
\* "sleeping": in asyncio.sleep(self._cleanup_interval), "backoff": in the
\* sleep of the loop's "except Exception" handler
CleanupTo(op, path, saved, b, task) ==
    /\ cleanup_task' = task
    /\ bindings' = b
    /\ call' = Call(op, path, saved)
    /\ delivered' = None
    /\ UNCHANGED <<now, config, pairingState, tracker, sent, reconnect,
                   failover, loader, webhook>>

\* await thread_manager.start_cleanup_loop(): nothing when the task runs
StartCleanupLoop ==
    CleanupTo("start_cleanup_loop", "", "none", bindings,
              IF cleanup_task \in {"sleeping", "backoff"}
              THEN cleanup_task ELSE "sleeping")

\* one round of _cleanup_loop after its sleep. expire_stale pops the stale
\* bindings and hands each to the on_expire callback in a task of its own,
\* inside _safe_callback, so that what the callback does (on_expire: "unset",
\* "ok", "raise") stays out of the round. An exception inside the round
\* itself (fault) leaves expire_stale after it has popped the bindings
\* "popped" and is caught by the loop, which backs off.
CleanupRoundAborting(on_expire, fault, popped) ==
    IF fault \/ on_expire = "raise"
    THEN [bindings |-> [k \in DOMAIN bindings \ popped |-> bindings[k]],
          task |-> "crashed"]
    ELSE [bindings |-> ExpireStale, task |-> "sleeping"]
CleanupRound(on_expire, fault, popped) ==
    IF fault
    THEN [bindings |-> [k \in DOMAIN bindings \ popped |-> bindings[k]],
          task |-> "backoff"]
    ELSE [bindings |-> ExpireStale, task |-> "sleeping"]

\* the cleanup task wakes up and runs one round
CleanupLoopRound(on_expire, fault, popped) ==
    /\ cleanup_task = "sleeping"
    /\ popped \subseteq StaleThreads
    /\ fault \/ popped = StaleThreads
    /\ LET o == CleanupRound(on_expire, fault, popped)
       IN  CleanupTo("cleanup_round",
                     IF fault THEN "fault"
                     ELSE IF StaleThreads = {} THEN "kept" ELSE "expired",
                     on_expire, o.bindings, o.task)

\* the 60 s sleep of the loop's exception handler ends
BackoffEnds ==
    /\ cleanup_task = "backoff"
    /\ CleanupTo("cleanup_backoff", "", "none", bindings, "sleeping")

\* await thread_manager.stop_cleanup_loop(): cancel the task and await it
StopCleanupLoop ==
    CleanupTo("stop_cleanup_loop", "", "none", bindings,
              IF cleanup_task = "sleeping" THEN CancelTask("try")
              ELSE IF cleanup_task = "backoff" THEN CancelTask("handler")
              ELSE cleanup_task)

(* --------------------------- LifecycleTracker -------------------------- *)

\* the fields of LifecycleEmojis, and the names phase() may be given
Phases == {"queued", "thinking", "tool_use", "done", "error", "streaming"}
PhaseNames == Phases \cup {"bogus"}

\* getattr(self._emojis, phase_name, None) under DEFAULT_EMOJIS: every field
\* has its own non-empty emoji, written here as the field's name
Emoji(name) == IF name \in Phases THEN Some(name) ELSE None

\* what awaiting a callback can do: return, or raise an Exception
CallbackResults == {"ok", "raise"}

\* one invocation of unreact_fn ("remove") or react_fn ("add")
Invocation(fn, emoji, result) == [fn |-> fn, emoji |-> emoji, result |-> result]

\* phase(), "Remove previous reaction if transitioning": the invocations made
RemoveCallsNever(name) == {<< >>}
RemoveCalls(name) ==
    IF /\ current_phase # None
       /\ current_phase[1] # name
       /\ Emoji(current_phase[1]) # None
       /\ unreact_fn
    THEN {<<Invocation("remove", Emoji(current_phase[1])[1], r)>> :
            r \in CallbackResults}
    ELSE {<< >>}

\* phase(), "Add new reaction": the invocations made
AddCalls(name) ==
    IF react_fn
    THEN {<<Invocation("add", Emoji(name)[1], r)>> : r \in CallbackResults}
    ELSE {<< >>}

\* what a phase() call leaves: the current phase, the invocations it made,
\* and whether it raised
PhaseOutcome(phase, invocations, raised) ==
    [current_phase |-> phase, reactions |-> invocations, raised |-> raised]

\* LifecycleTracker.phase(phase_name): the possible results
PhaseOutcomesAborting(name) ==
    IF Emoji(name) = None
    THEN {PhaseOutcome(current_phase, << >>, FALSE)}
    ELSE {IF \E i \in DOMAIN r : r[i].result = "raise"
          THEN PhaseOutcome(current_phase, r, TRUE)
          ELSE PhaseOutcome(Some(name), r \o a, FALSE) :
            r \in RemoveCalls(name), a \in AddCalls(name)}
PhaseOutcomes(name) ==
    IF Emoji(name) = None
    THEN {PhaseOutcome(current_phase, << >>, FALSE)}
    ELSE {PhaseOutcome(Some(name), r \o a, FALSE) :
            r \in RemoveCalls(name), a \in AddCalls(name)}

\* a tracker method has run with outcome o
ApplyTracker(op, name, o) ==
    /\ current_phase' = o.current_phase
    /\ reactions' = o.reactions
    /\ call' = Call(op, IF Emoji(name) = None THEN "unknown" ELSE name, "none")
    /\ delivered' = None
    /\ UNCHANGED <<now, config, pairingState, bindings, services>>

\* await tracker.phase(phase_name)
Phase(name) == \E o \in PhaseOutcomes(name) : ApplyTracker("phase", name, o)

\* await tracker.done()
Done == \E o \in PhaseOutcomes("done") : ApplyTracker("done", "done", o)

\* await tracker.error()
Error == \E o \in PhaseOutcomes("error") : ApplyTracker("error", "error", o)

\* the phases the tracker of one inbound message is taken through by the
\* adapter's pipeline: phase("queued"), then the try block with
\* phase("thinking"), the dispatch and done(), whose except clause calls
\* error(). typing is what the typing indicator does: Telegram sends it
\* between phase("queued") and the try block, Discord enters
\* channel.typing() inside the try block, Slack has none; dispatch is what
\* the host's callback does
PipelinePhases(adapter, typing, dispatch) ==
    IF adapter = "telegram" /\ typing = "raise"
    THEN <<"queued">>
    ELSE IF adapter = "discord" /\ typing = "raise"
    THEN <<"queued", "error">>
    ELSE IF dispatch = "raise"
    THEN <<"queued", "thinking", "error">>
    ELSE <<"queued", "thinking", "done">>

\* the invocations phase(name) makes on a tracker whose current phase is
\* prev (None on a new tracker)
TransitionCalls(prev, name) ==
    {r \o a :
        r \in IF prev # None /\ unreact_fn
              THEN {<<Invocation("remove", prev[1], result)>> :
                      result \in CallbackResults}
              ELSE {<< >>},
        a \in AddCalls(name)}

\* the adapter's message handler from "await tracker.phase('queued')" on,
\* with the tracker it has made for the message
HandleMessage(adapter, typing, dispatch) ==
    LET names == PipelinePhases(adapter, typing, dispatch)
        prev == IF Len(names) = 1 THEN None ELSE Some(names[Len(names) - 1])
    IN  /\ \E calls \in TransitionCalls(prev, names[Len(names)]) :
              reactions' = calls
        /\ current_phase' = Some(names[Len(names)])
        /\ call' = Call("handle_message", adapter,
                        IF typing = "raise" \/ dispatch = "raise"
                        THEN "raised" ELSE "returned")
        /\ delivered' = None
        /\ UNCHANGED <<now, config, pairingState, bindings, services>>

(* ------------------------ DiscordChannelAdapter ------------------------ *)

\* message.content as words: the bot's mention is the word "@bot", the
\* command prefix the word "!a0"
Mention == "@bot"
CommandPrefix == "!a0"
Contents == {<< >>, <<"hi">>, <<Mention>>, <<Mention, "hi">>,
             <<CommandPrefix, "hi">>}

\* the kinds of channel a message arrives on: a DMChannel, a guild text
\* channel, a Thread the bot owns, a Thread somebody else owns
ChannelKinds == {"dm", "text", "own_thread", "other_thread"}

\* what ProjectManager.check_access answers for a guild channel: no project
\* there (or no project manager), a project the author may not use, one the
\* author may use
ProjectAnswers == {"none", "denied", "granted"}

\* the messages that arrive: one of the bot's own, and the other users' (a
\* DM channel belongs to no project)
Messages ==
    {m \in [is_self : BOOLEAN, kind : ChannelKinds, channel : Channels,
            author : Users, content : Contents, project : ProjectAnswers] :
        /\ m.kind = "dm" => m.project = "none"
        /\ m.is_self => m = [is_self |-> TRUE, kind |-> "text", channel |-> 1,
                             author |-> 1, content |-> <<"hi">>,
                             project |-> "none"]}

\* self._client.user in message.mentions
MentionsBot(content) == \E i \in DOMAIN content : content[i] = Mention

\* content.replace("<@id>", "").strip()
RemoveMention(content) == SelectSeq(content, LAMBDA w : w # Mention)

\* content.startswith(self.command_prefix)
StartsWithPrefix(content) == Len(content) > 0 /\ content[1] = CommandPrefix

\* content[len(self.command_prefix):].strip()
RemovePrefix(content) == Tail(content)

\* the ChannelMessage on_message builds: metadata author_id, is_dm,
\* channel_id and whether thread_binding is set (content, attachments and the
\* rest of the metadata are left out)
ChannelMessage(msg, content, binding) ==
    [author_id |-> msg.author, is_dm |-> msg.kind = "dm",
     channel_id |-> msg.channel, thread_bound |-> binding # None]

\* what the host's message handler does with a message: return, or raise an
\* Exception
HandlerResults == {"ok", "raise"}

\* PluginLoader._handle_incoming(message) with a message handler that does h:
\* the handler's exception is logged, not raised again
HandleIncoming(h) == "returned"

\* ChannelAdapter._dispatch_message(message): awaits the callback start_all
\* registered, PluginLoader._handle_incoming
DispatchMessage(h) == HandleIncoming(h)

\* on_message, "Lifecycle: queued -> thinking -> done/error" on the message's
\* own tracker, whose callbacks _react and _unreact never raise: the phase it
\* ends in given what the dispatch did, and the invocations of that last call
FinalPhase(dispatch) == IF dispatch = "raised" THEN "error" ELSE "done"
LastReactions(final) ==
    <<Invocation("remove", Emoji("thinking")[1], "ok"),
      Invocation("add", Emoji(final)[1], "ok")>>

\* What on_message leaves: the pending dict and the bindings afterwards, the
\* message handed to the host handler if any, and the branch taken.
\* on_message returned before the dispatch:
Returned(path, p, b) ==
    [path |-> path, pending |-> p, bindings |-> b, delivered |-> None]

\* on_message from "if not should_respond or not content" on
Respond(msg, should_respond, content, b, binding) ==
    IF ~should_respond \/ content = << >>
    THEN {Returned("ignored", pending, b)}
    ELSE {[path |-> IF h = "ok" THEN "dispatched" ELSE "handler_raised",
           pending |-> pending, bindings |-> b,
           delivered |-> Some(ChannelMessage(msg, content, binding))] :
            h \in HandlerResults}

\* on_message, the DM branch: PairingManager access control
RespondToDM(msg, should_respond) ==
    IF ~respond_to_dms
    THEN Respond(msg, should_respond, msg.content, bindings, None)
    ELSE IF IsAuthorized(msg.author)
    THEN Respond(msg, TRUE, msg.content, bindings, None)
    ELSE IF policy = "pairing"
    THEN {Returned(IF o.ret = None THEN "pairing_refused" ELSE "pairing_requested",
                   o.pending, bindings) :
            o \in CreateRequestOutcomes(msg.author, msg.channel)}
    ELSE IF policy = "disabled"
    THEN {Returned("dm_disabled", pending, bindings)}
    ELSE IF ~CheckDmAccess(msg.author)
    THEN {Returned("dm_denied", pending, bindings)}
    ELSE Respond(msg, TRUE, msg.content, bindings, None)

\* DiscordChannelAdapter.start.on_message(message): the possible results
OnMessageOutcomes(msg) ==
    IF msg.is_self
    THEN {Returned("self", pending, bindings)}
    ELSE
    LET thread_binding == GetBinding(msg.channel)
        project == IF msg.kind = "dm" THEN "none" ELSE msg.project
        should_respond == project = "granted"
    IN  IF project = "denied"
        THEN {Returned("project_denied", pending, bindings)}
        ELSE IF thread_binding # None
        THEN Respond(msg, TRUE, msg.content, Touch(msg.channel), thread_binding)
        ELSE IF msg.kind = "dm"
        THEN RespondToDM(msg, should_respond)
        ELSE IF MentionsBot(msg.content)
        THEN IF respond_to_mentions
             THEN Respond(msg, TRUE, RemoveMention(msg.content), bindings, None)
             ELSE Respond(msg, should_respond, msg.content, bindings, None)
        ELSE IF msg.kind \in {"own_thread", "other_thread"}
        THEN Respond(msg, should_respond \/ msg.kind = "own_thread",
                     msg.content, bindings, None)
        ELSE IF StartsWithPrefix(msg.content)
        THEN Respond(msg, TRUE, RemovePrefix(msg.content), bindings, None)
        ELSE Respond(msg, should_respond, msg.content, bindings, None)

\* a Discord message arrives
OnMessage(msg) ==
    /\ msg.channel \in DOMAIN bindings
          => bindings[msg.channel].message_count < MaxMessageCount
    /\ \E o \in OnMessageOutcomes(msg) :
          /\ pending' = o.pending
          /\ bindings' = o.bindings
          /\ delivered' = o.delivered
          /\ call' = Call("on_message", o.path, "none")
          /\ IF o.delivered = None
             THEN UNCHANGED tracker
             ELSE LET h == IF o.path = "handler_raised" THEN "raise" ELSE "ok"
                      final == FinalPhase(DispatchMessage(h))
                  IN  /\ current_phase' = Some(final)
                      /\ reactions' = LastReactions(final)
    /\ UNCHANGED <<now, config, allowlist, blocklist, file, services>>

\* /a0 approve <code> typed by user: owner-only when an owner is configured
CmdApprove(user, code) ==
    IF owner_user_id # NoUser /\ user # owner_user_id
    THEN Apply("cmd_approve", Unchanged(None, "not_owner"))
    ELSE \E o \in ApproveCodeOutcomes(code) : Apply("cmd_approve", o)

\* thread_manager.bind(thread_id, target, user_id, guild_id)
Bind(thread, target, user, guild) ==
    /\ bindings' = BindThread(thread, target, user, guild)
    /\ call' = Call("bind",
                    IF thread \in DOMAIN bindings THEN "rebound" ELSE "bound",
                    "none")
    /\ delivered' = None
    /\ UNCHANGED <<now, config, pairingState, tracker, services>>

(* ------------------------- error classification ----------------------- *)

\* str.lower(), letter by letter
LowerChar(ch) ==
    LET upper == <<"A", "B", "C", "D", "E", "F", "G", "H", "I", "J", "K", "L",
                   "M", "N", "O", "P", "Q", "R", "S", "T", "U", "V", "W", "X",
                   "Y", "Z">>
        lower == <<"a", "b", "c", "d", "e", "f", "g", "h", "i", "j", "k", "l",
                   "m", "n", "o", "p", "q", "r", "s", "t", "u", "v", "w", "x",
                   "y", "z">>
    IN  IF \E i \in DOMAIN upper : upper[i] = ch
        THEN lower[CHOOSE i \in DOMAIN upper : upper[i] = ch]
        ELSE ch
Lower(s) == [i \in DOMAIN s |-> LowerChar(s[i])]

\* "pattern in text": the pattern is a substring of the text
Contains(text, pattern) ==
    \E i \in 1..(Len(text) - Len(pattern) + 1) :
        \A j \in DOMAIN pattern : text[i + j - 1] = pattern[j]

\* re.search of one alternative of a pattern compiled with re.IGNORECASE:
\* "." matches any character, a letter matches in either case
Search(text, alternative) ==
    \E i \in 1..(Len(text) - Len(alternative) + 1) :
        \A j \in DOMAIN alternative :
            \/ alternative[j] = "."
            \/ LowerChar(text[i + j - 1]) = alternative[j]

\* model_failover._FAILOVER_PATTERNS
FAILOVER_PATTERNS ==
    {<<"r", "a", "t", "e", "_", "l", "i", "m", "i", "t">>,
     <<"r", "a", "t", "e", " ", "l", "i", "m", "i", "t">>,
     <<"4", "2", "9">>,
     <<"q", "u", "o", "t", "a">>,
     <<"o", "v", "e", "r", "l", "o", "a", "d", "e", "d">>,
     <<"s", "e", "r", "v", "i", "c", "e", "_", "u", "n", "a", "v", "a", "i", "l", "a", "b", "l", "e">>,
     <<"5", "0", "3">>,
     <<"5", "0", "2">>,
     <<"t", "i", "m", "e", "o", "u", "t">>,
     <<"t", "i", "m", "e", "d", " ", "o", "u", "t">>,
     <<"c", "o", "n", "n", "e", "c", "t", "i", "o", "n">>,
     <<"t", "e", "m", "p", "o", "r", "a", "r", "i", "l", "y", " ", "u", "n", "a", "v", "a", "i", "l", "a", "b", "l", "e">>,
     <<"c", "a", "p", "a", "c", "i", "t", "y">>,
     <<"t", "o", "o", " ", "m", "a", "n", "y", " ", "r", "e", "q", "u", "e", "s", "t", "s">>}

\* the alternatives of the adapters' _OVERLOAD_PATTERNS
OVERLOAD_PATTERNS ==
    {<<"o", "v", "e", "r", "l", "o", "a", "d", "e", "d">>,
     <<"s", "e", "r", "v", "i", "c", "e", ".", "u", "n", "a", "v", "a", "i", "l", "a", "b", "l", "e">>,
     <<"h", "i", "g", "h", ".", "d", "e", "m", "a", "n", "d">>,
     <<"5", "0", "3">>,
     <<"5", "0", "2">>,
     <<"t", "e", "m", "p", "o", "r", "a", "r", "i", "l", "y", ".", "u", "n", "a", "v", "a", "i", "l", "a", "b", "l", "e">>}

\* model_failover._is_retriable(error) for an error with text str(error)
IsRetriable(text) == \E p \in FAILOVER_PATTERNS : Contains(Lower(text), p)

\* the adapters' _is_overload_error(error)
IsOverloadError(text) == \E p \in OVERLOAD_PATTERNS : Search(text, p)

\* the error texts str(error) the platforms and providers answer with
ErrorText ==
    [too_many |-> <<"4", "2", "9">>,
     unavailable |-> <<"5", "0", "3">>,
     overloaded |-> <<"O", "v", "e", "r", "l", "o", "a", "d", "e", "d">>,
     denied |-> <<"d", "e", "n", "i", "e", "d">>]

(* ------------------------- adapters: send_message --------------------- *)

\* MAX_RETRIES and BASE_BACKOFF_SECONDS of the adapters
MAX_RETRIES == 3
BASE_BACKOFF_SECONDS == 2

\* e.retry_after of the telegram.error.RetryAfter the model raises
RetryAfterSeconds == 7

\* what one attempt (all chunks of the message) does: it succeeds, or raises
\* an error with a text; retry_after > 0 marks a telegram RetryAfter
Ok == [ok |-> TRUE, text |-> << >>, retry_after |-> 0]
Failure(text) == [ok |-> FALSE, text |-> text, retry_after |-> 0]
RetryAfter ==
    [ok |-> FALSE, text |-> <<"f", "l", "o", "o", "d">>,
     retry_after |-> RetryAfterSeconds]

\* the error texts the send attempts fail with
AttemptResults ==
    {Ok, RetryAfter} \cup {Failure(ErrorText[t]) : t \in DOMAIN ErrorText}

\* 2 ** attempt
RECURSIVE Pow2(_)
Pow2(n) == IF n = 0 THEN 1 ELSE 2 * Pow2(n - 1)

\* wait_time = BASE_BACKOFF_SECONDS * (2 ** attempt)
WaitTimeFlat(attempt) == BASE_BACKOFF_SECONDS
WaitTime(attempt) == BASE_BACKOFF_SECONDS * Pow2(attempt)

\* what send_message returns with: attempts made, the sleeps, the value
SendOutcome(attempts, sleeps, ret) ==
    [attempts |-> attempts, sleeps |-> sleeps, ret |-> ret]

\* "for attempt in range(self.MAX_RETRIES)" from attempt on; results[n] is
\* what the n-th attempt does
RECURSIVE SendLoop(_, _, _, _)
SendLoop(kind, results, attempt, sleeps) ==
    IF attempt >= MAX_RETRIES
    THEN SendOutcome(attempt, sleeps, FALSE)
    ELSE LET r == results[attempt + 1]
         IN  IF r.ok
             THEN SendOutcome(attempt + 1, sleeps, TRUE)
             ELSE IF IsOverloadError(r.text) /\ attempt < MAX_RETRIES - 1
             THEN SendLoop(kind, results, attempt + 1,
                           Append(sleeps, WaitTime(attempt)))
             ELSE IF kind = "telegram" /\ r.retry_after > 0
             THEN SendLoop(kind, results, attempt + 1,
                           Append(sleeps, r.retry_after))
             ELSE SendOutcome(attempt + 1, sleeps, FALSE)

\* the targets of a send: "to" as its words and colons
SendTargets ==
    {<<"user", ":", "123">>, <<"channel", ":", "123">>,
     <<"chat", ":", "123">>, <<"room", ":", "123">>,
     <<"foo", ":", "123">>, <<"123">>, <<"chat", ":", "abc">>}

\* the target kinds an adapter's send_message documents and names in its
\* error message
KnownKinds(kind) ==
    CASE kind = "discord" -> {"user", "channel"}
      [] kind = "telegram" -> {"chat"}
      [] kind = "slack" -> {"channel"}
      [] kind = "matrix" -> {"room"}

\* int(target_id) does not raise
IsInt(id) == id = <<"123">>

\* the "try: ... to.split(":", 1) ... except (ValueError, AttributeError):
\* return False" of send_message: None when it returns False, else the kind
\* and the id. Without a colon the unpacking raises, except in Discord, which
\* first turns a bare id into "user:<id>"; Telegram and Discord convert the
\* id with int()
ParseTarget(kind, to) ==
    LET full == IF kind = "discord" /\ \A n \in DOMAIN to : to[n] # ":"
                THEN <<"user", ":">> \o to ELSE to
        colons == {n \in DOMAIN full : full[n] = ":"}
    IN  IF colons = {}
        THEN None
        ELSE LET first == CHOOSE n \in colons : \A m \in colons : n <= m
                 target_type == SubSeq(full, 1, first - 1)
                 target_id == SubSeq(full, first + 1, Len(full))
             IN  IF kind \in {"telegram", "discord"} /\ ~IsInt(target_id)
                 THEN None
                 ELSE Some([type |-> target_type, id |-> target_id])

\* DiscordChannelAdapter.send_message after the wait for ready: the target
\* type picks the send, any other type returns False; one attempt, every
\* exception returns False
DiscordSend(to, results) ==
    LET t == ParseTarget("discord", to)
    IN  IF t = None
        THEN SendOutcome(0, << >>, FALSE)
        ELSE IF t[1].type \in {<<"user">>, <<"channel">>}
        THEN SendOutcome(1, << >>, results[1].ok)
        ELSE SendOutcome(0, << >>, FALSE)

\* adapter.send_message(to, content) past the client check. Telegram, Slack
\* and Matrix assign the kind that split() returns to "_" and send to the id
\* in the retry loop
SendMessage(kind, to, results) ==
    IF kind = "discord"
    THEN DiscordSend(to, results)
    ELSE IF ParseTarget(kind, to) = None
    THEN SendOutcome(0, << >>, FALSE)
    ELSE SendLoop(kind, results, 0, << >>)

\* the client of the adapter when send_message is called: "none" (start()
\* has not created it), "closed" (Discord: is_closed()), "ready", and for
\* Discord, whose start() creates the client before it logs in, "starting"
\* (on_ready has not run yet) and "login_failed" (client.start raised, the
\* client is neither closed nor ever ready)
Clients(kind) ==
    IF kind = "discord"
    THEN {"none", "closed", "starting", "login_failed", "ready"}
    ELSE {"none", "ready"}

\* no send yet
NoSend ==
    [kind |-> "none", client |-> "none", to |-> << >>, stop_during |-> 0,
     phase |-> "idle", ready |-> FALSE, results |-> << >>, attempts |-> 0,
     sleeps |-> << >>, ret |-> FALSE]

\* the send has moved on to s
SendTo(s) ==
    /\ sent' = s
    /\ UNCHANGED <<now, config, pairingState, bindings, tracker, delivered,
                   call, reconnect, failover, loader, cleanup_task, webhook>>

\* send_message has returned o
SendReturned(s, o) ==
    [s EXCEPT !.phase = "returned", !.attempts = o.attempts,
              !.sleeps = o.sleeps, !.ret = o.ret]

\* await adapter.send_message(to, content); a send keeps nothing from one
\* call to the next, so one call is followed. stop_during = n > 0: the
\* adapter's stop() runs while the send is in its n-th backoff sleep, which
\* nothing in the loop looks at. ready: the send reaches the retry loop.
\* Discord awaits _ready_event before it sends, with no timeout.
Send(kind, client, to, stop_during, results) ==
    /\ sent = NoSend
    /\ LET s == [kind |-> kind, client |-> client, to |-> to,
                 stop_during |-> stop_during, phase |-> "waiting",
                 ready |-> /\ kind # "discord"
                           /\ client = "ready"
                           /\ ParseTarget(kind, to) # None,
                 results |-> results, attempts |-> 0, sleeps |-> << >>,
                 ret |-> FALSE]
       IN  SendTo(IF client \in {"none", "closed"}
                  THEN SendReturned(s, SendOutcome(0, << >>, FALSE))
                  ELSE IF client = "ready"
                  THEN SendReturned(s, SendMessage(kind, to, results))
                  ELSE s)

\* Discord's on_ready: self._ready_event.set()
OnReady ==
    /\ sent.client = "starting"
    /\ SendTo([sent EXCEPT !.client = "ready"])

\* the send that waited for _ready_event goes on
ResumeSend ==
    /\ sent.phase = "waiting"
    /\ sent.client = "ready"
    /\ SendTo(SendReturned(sent, SendMessage(sent.kind, sent.to, sent.results)))

(* ------------------------- adapters: reconnect loops ------------------ *)

\* RECONNECT_INITIAL_DELAY and RECONNECT_MAX_DELAY, in seconds
RECONNECT_INITIAL_DELAY == 5
RECONNECT_MAX_DELAY == 300

Min(a, b) == IF a < b THEN a ELSE b

\* self._reconnect_delay = min(self._reconnect_delay * 2, RECONNECT_MAX_DELAY)
Escalate(delay) == Min(delay * 2, RECONNECT_MAX_DELAY)

\* the adapter after __init__: not started, no link, no monitor task;
\* monitor is where the task of the reconnect loop is ("none": not created,
\* "running", or how it ended), failures counts the failed reconnects since
\* the link was last up, waited is the last delay slept before a reconnect
\* attempt (0: none yet)
ReconnectLoop(kind) ==
    [kind |-> kind, started |-> FALSE, should_reconnect |-> TRUE,
     connected |-> FALSE, monitor |-> "none",
     delay |-> RECONNECT_INITIAL_DELAY, failures |-> 0, waited |-> 0]

\* the reconnect loop has moved on to r
ReconnectTo(r) ==
    /\ reconnect' = r
    /\ UNCHANGED <<now, config, pairingState, bindings, tracker, delivered,
                   call, sent, failover, loader, cleanup_task, webhook>>

\* TelegramChannelAdapter.start, "for attempt in range(self.MAX_RETRIES)" from
\* attempt on: it returns from inside the loop once polling has started, and
\* reaches the lines after the loop, which create the monitor task, only when
\* no attempt is left; results[n] is what the n-th attempt does
RECURSIVE TelegramStart(_, _)
TelegramStart(results, attempt) ==
    IF attempt >= MAX_RETRIES
    THEN [connected |-> FALSE, monitor |-> "running"]
    ELSE LET r == results[attempt + 1]
         IN  IF r.ok
             THEN [connected |-> TRUE, monitor |-> "none"]
             ELSE IF IsOverloadError(r.text) /\ attempt < MAX_RETRIES - 1
             THEN TelegramStart(results, attempt + 1)
             ELSE IF r.retry_after > 0
             THEN TelegramStart(results, attempt + 1)
             ELSE [connected |-> FALSE, monitor |-> "none"]

\* adapter.start(): Slack and Matrix connect once and then create the task,
\* and an exception of the connect leaves start() before that
StartOutcome(kind, results) ==
    IF kind = "telegram"
    THEN TelegramStart(results, 0)
    ELSE IF results[1].ok
    THEN [connected |-> TRUE, monitor |-> "running"]
    ELSE [connected |-> FALSE, monitor |-> "none"]

\* await adapter.start()
StartAdapter(results) ==
    /\ ~reconnect.started
    /\ reconnect.should_reconnect
    /\ LET o == StartOutcome(reconnect.kind, results)
       IN  ReconnectTo([reconnect EXCEPT !.started = TRUE,
                                         !.connected = o.connected,
                                         !.monitor = o.monitor])

\* the loop finds the link up. Telegram (updater.running) and Slack
\* (client.is_connected()): sleep 10 s and reset the delay; Matrix: the link
\* is up while sync_forever runs, nothing is assigned
LinkIsUp ==
    /\ reconnect.monitor = "running"
    /\ reconnect.should_reconnect
    /\ reconnect.connected
    /\ ReconnectTo(IF reconnect.kind = "matrix"
                   THEN reconnect
                   ELSE [reconnect EXCEPT !.delay = RECONNECT_INITIAL_DELAY])

\* the platform drops the link (Matrix: sync_forever raises)
Disconnect ==
    /\ reconnect.should_reconnect
    /\ reconnect.connected
    /\ ReconnectTo([reconnect EXCEPT !.connected = FALSE])

\* one round of the loop with the link down: sleep the delay, escalate it,
\* try to reconnect (Telegram: start_polling, Slack: connect_async, Matrix:
\* the next sync_forever); after a reconnect that succeeded Telegram and
\* Slack reset the delay, Matrix keeps the escalated delay until its loop ends
ReconnectAttempt(succeeds) ==
    /\ reconnect.monitor = "running"
    /\ reconnect.should_reconnect
    /\ ~reconnect.connected
    /\ reconnect.failures < MaxFailures
    /\ ReconnectTo(
          [reconnect EXCEPT
              !.waited = reconnect.delay,
              !.connected = succeeds,
              !.failures = IF succeeds THEN 0 ELSE @ + 1,
              !.delay = IF succeeds
                        THEN IF reconnect.kind = "matrix"
                             THEN Escalate(@)
                             ELSE RECONNECT_INITIAL_DELAY
                        ELSE Escalate(@)])

\* await adapter.stop() while the loop task waits at "at": _should_reconnect
\* = False, cancel the task and await it, close the client. Matrix waits in
\* the try block (in sync_forever) exactly while the link is up, and resets
\* the delay on the line after its loop
StopReconnecting(at) ==
    /\ reconnect.should_reconnect
    /\ reconnect.kind = "matrix" => (at = "try") = reconnect.connected
    /\ LET ended == IF reconnect.monitor = "running"
                    THEN CancelTask(at) ELSE reconnect.monitor
       IN  ReconnectTo(
              [reconnect EXCEPT
                  !.should_reconnect = FALSE,
                  !.connected = FALSE,
                  !.monitor = ended,
                  !.delay = IF reconnect.kind = "matrix"
                               /\ reconnect.monitor = "running"
                               /\ ended = "returned"
                            THEN RECONNECT_INITIAL_DELAY ELSE @])

(* ----------------------------- generic webhook ------------------------ *)

\* strings as their words: the values of the environment variables ("" is
\* unset), the Authorization headers and the "message" of the payload
SecretValues == {<< >>, <<"s1">>, <<"s2">>}
Bearer(token) == <<"Bearer", " ">> \o token
AuthHeaders ==
    {<< >>, Bearer(<<"s1">>), Bearer(<<"s2">>), <<"s1">>,
     <<"Basic", " ", "s1">>}
WebhookMessages == {<< >>, <<"hi">>}

\* the variables os.environ is asked for: the route reads WEBHOOK_AUTH_TOKEN,
\* the adapter the variable named by its auth_token_env
EnvNames == {"WEBHOOK_AUTH_TOKEN", "OTHER_TOKEN"}

\* auth_header.startswith("Bearer ") and auth_header[7:]
StartsWithBearer(header) ==
    Len(header) >= 2 /\ SubSeq(header, 1, 2) = <<"Bearer", " ">>
ProvidedToken(header) == SubSeq(header, 3, Len(header))

\* WebhookChannelAdapter.handle_webhook(payload, auth_header): whether the
\* message went to _dispatch_message
HandleWebhook(expected_token, message, auth_header) ==
    IF expected_token # << >> /\ auth_header # Bearer(expected_token)
    THEN FALSE
    ELSE message # << >>

\* Webhook_incoming._route_to_generic(payload, request): the answer and
\* whether the message was dispatched. The adapter is called as
\* handle_webhook(payload), so that its auth_header is the default ""
RouteToGeneric(env, auth_token_env, loaded, header, message) ==
    LET expected_token == env["WEBHOOK_AUTH_TOKEN"]
    IN  IF expected_token # << >> /\ ~StartsWithBearer(header)
        THEN [status |-> "401", dispatched |-> FALSE]
        ELSE IF expected_token # << >>
                /\ ProvidedToken(header) # expected_token
        THEN [status |-> "403", dispatched |-> FALSE]
        ELSE IF loaded
        THEN [status |-> "ok",
              dispatched |-> HandleWebhook(env[auth_token_env], message,
                                           << >>)]
        ELSE [status |-> "no adapter", dispatched |-> FALSE]

\* the environment and the webhook adapter of a deployment; no POST yet
Deployment(env, auth_token_env, loaded) ==
    [env |-> env, auth_token_env |-> auth_token_env, loaded |-> loaded,
     posted |-> FALSE, header |-> << >>, message |-> << >>,
     status |-> "", dispatched |-> FALSE]

\* the webhook of the other specifications: nothing set, default adapter
NoWebhook ==
    Deployment([n \in EnvNames |-> << >>], "WEBHOOK_AUTH_TOKEN", TRUE)

\* POST /webhook_incoming with a payload that is not WhatsApp's; one request
\* is followed, a request keeps nothing for the next
PostWebhook(header, message) ==
    /\ ~webhook.posted
    /\ LET o == RouteToGeneric(webhook.env, webhook.auth_token_env,
                               webhook.loaded, header, message)
       IN  webhook' = [webhook EXCEPT !.posted = TRUE, !.header = header,
                                      !.message = message,
                                      !.status = o.status,
                                      !.dispatched = o.dispatched]
    /\ UNCHANGED <<now, config, pairingState, bindings, tracker, delivered,
                   call, sent, reconnect, failover, loader, cleanup_task>>

(* ----------------------------- model failover ------------------------- *)

\* a failover chain string is a sequence of tokens: names, ":", "," and " "
\* str.split(sep): the pieces between the separators
RECURSIVE Split(_, _)
Split(s, sep) ==
    IF \E i \in DOMAIN s : s[i] = sep
    THEN LET i == CHOOSE j \in DOMAIN s :
                     s[j] = sep /\ \A k \in 1..(j - 1) : s[k] # sep
         IN  <<SubSeq(s, 1, i - 1)>> \o Split(SubSeq(s, i + 1, Len(s)), sep)
    ELSE <<s>>

\* a (provider, model) pair
Model(provider, model) == [provider |-> provider, model |-> model]

\* parse_failover_chain, "for entry in chain_str.split(',')" over the pieces;
\* entry.split(":", 1) gives what is before the first ":" and what is after
RECURSIVE ParseEntries(_)
ParseEntries(entries) ==
    IF entries = << >>
    THEN << >>
    ELSE LET entry == Strip(Head(entries))
             before == Split(entry, ":")[1]
             after == SubSeq(entry, Len(before) + 2, Len(entry))
         IN  (IF \E i \in DOMAIN entry : entry[i] = ":"
              THEN <<Model(Strip(before), Strip(after))>>
              ELSE << >>)
             \o ParseEntries(Tail(entries))

\* parse_failover_chain(chain_str)
ParseFailoverChain(chain_str) ==
    IF chain_str = << >> \/ Strip(chain_str) = << >>
    THEN << >>
    ELSE ParseEntries(Split(chain_str, ","))

\* the primary model and the chain strings call_with_failover is given
Primary == Model(<<"p0">>, <<"m0">>)
ChainStrings ==
    {<< >>,
     <<" ">>,
     <<"p1", ":", "m1">>,
     <<"p1", ":", "m1", ",", " ", "p2", ":", "m2">>,
     <<"bad", ",", "p1", ":", "m1">>,
     <<" ", "p1", " ", ":", "m1", ":", "x", ",">>}

\* "Build the full chain: primary first, then failover models"
ModelsToTryChainFirst(primary, chain_str, enabled) ==
    (IF enabled /\ chain_str # << >>
     THEN ParseFailoverChain(chain_str) ELSE << >>) \o <<primary>>
ModelsToTry(primary, chain_str, enabled) ==
    <<primary>> \o (IF enabled /\ chain_str # << >>
                    THEN ParseFailoverChain(chain_str) ELSE << >>)

\* base_backoff, the default
BaseBackoff == 1

\* what a call of call_fn does: it returns, or raises an error with a text
CallResults == {Ok, Failure(ErrorText.too_many), Failure(ErrorText.denied)}

\* the events of a call_with_failover run: a call of call_fn on the idx-th
\* model (attempt counted from 0) with its result, or a sleep
CallEvent(idx, model, attempt, result) ==
    [kind |-> "call", idx |-> idx, model |-> model, attempt |-> attempt,
     result |-> result, seconds |-> 0]
SleepEvent(idx, model, attempt, seconds) ==
    [kind |-> "sleep", idx |-> idx, model |-> model, attempt |-> attempt,
     result |-> Ok, seconds |-> seconds]

\* the error the n-th call raised
ErrorOf(n, result) == [call |-> n, text |-> result.text]

\* "if not _is_retriable(e): break"
EndsEntryNever(text) == FALSE
EndsEntry(text) == ~IsRetriable(text)

\* how call_with_failover ends: the events, the value returned (the number
\* of the call that returned it) or the error raised
FailoverOutcome(events, returned, raised) ==
    [events |-> events, returned |-> returned, raised |-> raised]

\* the calls among the events
CallsOf(events) == SelectSeq(events, LAMBDA e : e.kind = "call")

\* the two loops of call_with_failover from model idx, attempt on;
\* results[n] is what the n-th call of call_fn does; "raise last_error" with
\* last_error None raises a TypeError, which no call raised (call 0)
RECURSIVE FailoverLoop(_, _, _, _, _, _, _)
FailoverLoop(models, max_retries, results, idx, attempt, events, last_error) ==
    IF idx > Len(models)
    THEN FailoverOutcome(events, None,
                         IF last_error = None
                         THEN Some([call |-> 0, text |-> << >>])
                         ELSE last_error)
    ELSE IF attempt >= max_retries
    THEN FailoverLoop(models, max_retries, results, idx + 1, 0, events,
                      last_error)
    ELSE LET n == Len(CallsOf(events)) + 1
             r == results[n]
             called == Append(events, CallEvent(idx, models[idx], attempt, r))
         IN  IF r.ok
             THEN FailoverOutcome(called, Some(n), None)
             ELSE IF EndsEntry(r.text)
             THEN FailoverLoop(models, max_retries, results, idx + 1, 0,
                               called, Some(ErrorOf(n, r)))
             ELSE IF attempt < max_retries - 1
             THEN FailoverLoop(models, max_retries, results, idx, attempt + 1,
                               Append(called,
                                      SleepEvent(idx, models[idx], attempt,
                                                 BaseBackoff * Pow2(attempt))),
                               Some(ErrorOf(n, r)))
             ELSE FailoverLoop(models, max_retries, results, idx, attempt + 1,
                               called, Some(ErrorOf(n, r)))

\* call_with_failover(call_fn, primary, failover_chain, failover_enabled,
\* max_retries_per_model)
CallWithFailover(primary, chain_str, enabled, max_retries, results) ==
    FailoverLoop(ModelsToTry(primary, chain_str, enabled), max_retries,
                 results, 1, 0, << >>, None)

\* no call_with_failover yet
NoFailover ==
    [ran |-> FALSE, chain_str |-> << >>, enabled |-> FALSE, max_retries |-> 0,
     results |-> << >>, models |-> << >>, events |-> << >>, returned |-> None, raised |-> None]

\* await call_with_failover(...); it keeps nothing from one call to the
\* next, so one call is followed
Failover(chain_str, enabled, max_retries, results) ==
    /\ ~failover.ran
    /\ LET o == CallWithFailover(Primary, chain_str, enabled, max_retries,
                                 results)
       IN  failover' =
              [ran |-> TRUE, chain_str |-> chain_str, enabled |-> enabled,
               max_retries |-> max_retries, results |-> results,
               models |-> ModelsToTry(Primary, chain_str, enabled),
               events |-> o.events, returned |-> o.returned,
               raised |-> o.raised]
    /\ UNCHANGED <<now, config, pairingState, bindings, tracker, delivered,
                   call, sent, reconnect, loader, cleanup_task, webhook>>

(* ------------------------------ PluginLoader --------------------------- *)

\* the plugins in the plugins directory, in sorted order, and the channel id
\* the adapter each one registers
Plugins == <<"discord_channel", "slack_channel">>
ChannelOf(plugin) == IF plugin = "discord_channel" THEN "discord" ELSE "slack"
ChannelIds == {ChannelOf(Plugins[i]) : i \in DOMAIN Plugins}

\* an adapter instance: its channel id, whether _message_callback is set, and
\* whether a start task was created for it, start() is running, start()
\* raised, or stop() has returned
Adapter(channel) == [channel |-> channel, callback |-> FALSE, status |-> "created"]

\* PluginLoader.__init__: no channels; instances lists every adapter
\* instance the plugins have created, last is the last operation's result
NoLoader ==
    [channels |-> << >>, instances |-> << >>, started |-> FALSE,
     last |-> [op |-> "init", ret |-> FALSE, raised |-> FALSE]]

LastOp(op, ret, raised) == [op |-> op, ret |-> ret, raised |-> raised]

\* discover(), "for entry in sorted(self.plugins_dir.iterdir())" from the
\* i-th plugin on; results[plugin] is what happens at that plugin: it is
\* "disabled" (or has no manifest), loading it "failed", or it is "loaded"
\* and register(api) registers the plugin's adapter
RECURSIVE DiscoverFrom(_, _, _)
DiscoverFrom(l, results, i) ==
    IF i > Len(Plugins)
    THEN l
    ELSE IF results[Plugins[i]] = "loaded"
    THEN DiscoverFrom(
            [l EXCEPT
                !.instances = Append(@, Adapter(ChannelOf(Plugins[i]))),
                !.channels = Store(@, ChannelOf(Plugins[i]),
                                   Len(l.instances) + 1)],
            results, i + 1)
    ELSE DiscoverFrom(l, results, i + 1)

\* PluginLoader.discover()
DiscoverOutcome(results) ==
    [DiscoverFrom(loader, results, 1) EXCEPT
        !.last = LastOp("discover", FALSE, FALSE)]

\* the registered channel ids, listed in the order of their plugins
RegisteredChannels ==
    SelectSeq([i \in DOMAIN Plugins |-> ChannelOf(Plugins[i])],
              LAMBDA ch : ch \in DOMAIN loader.channels)

\* start_all, "for ch_id, adapter in self._channels.items()" from the i-th
\* channel on; wiring[ch] says whether the try block for ch raises
RECURSIVE StartFromAborting(_, _, _)
StartFromAborting(l, wiring, i) ==
    IF i > Len(RegisteredChannels)
    THEN l
    ELSE LET ch == RegisteredChannels[i]
         IN  IF wiring[ch] = "raise"
             THEN [l EXCEPT !.last.raised = TRUE]
             ELSE StartFromAborting(
                     [l EXCEPT !.instances[l.channels[ch]].callback = TRUE,
                               !.instances[l.channels[ch]].status = "starting"],
                     wiring, i + 1)
RECURSIVE StartFrom(_, _, _)
StartFrom(l, wiring, i) ==
    IF i > Len(RegisteredChannels)
    THEN l
    ELSE LET ch == RegisteredChannels[i]
         IN  IF wiring[ch] = "raise"
             THEN StartFrom(l, wiring, i + 1)
             ELSE StartFrom(
                     [l EXCEPT !.instances[l.channels[ch]].callback = TRUE,
                               !.instances[l.channels[ch]].status = "starting"],
                     wiring, i + 1)

\* PluginLoader.start_all(message_handler)
StartAllOutcome(wiring) ==
    StartFrom([loader EXCEPT !.started = TRUE,
                             !.last = LastOp("start_all", FALSE, FALSE)],
              wiring, 1)

\* the task of _start_adapter: adapter.start() is running, or has raised
\* (at once or later), which is logged
StartTaskOutcome(i, result) ==
    [loader EXCEPT !.instances[i].status = result,
                   !.last = LastOp("start_task", FALSE, FALSE)]

\* PluginLoader.stop_all(): stopping[ch] says whether adapter.stop() raises
StopAllOutcome(stopping) ==
    [loader EXCEPT
        !.started = FALSE,
        !.instances =
            [i \in DOMAIN loader.instances |->
                LET adapter == loader.instances[i]
                IN  IF /\ adapter.channel \in DOMAIN loader.channels
                       /\ loader.channels[adapter.channel] = i
                       /\ stopping[adapter.channel] = "ok"
                    THEN [adapter EXCEPT !.status = "stopped"]
                    ELSE adapter],
        !.last = LastOp("stop_all", FALSE, FALSE)]

\* what adapter.send_message does: returns True, returns False, or raises
SendResults == {"true", "false", "raise"}

\* PluginLoader.send(channel_id, to, content): the value returned and
\* whether send raised
LoaderSendRaising(channel, result) ==
    IF channel \notin DOMAIN loader.channels
    THEN LastOp("send", FALSE, FALSE)
    ELSE LastOp("send", result = "true", result = "raise")
LoaderSend(channel, result) ==
    IF channel \notin DOMAIN loader.channels
    THEN LastOp("send", FALSE, FALSE)
    ELSE IF result = "raise"
    THEN LastOp("send", FALSE, FALSE)
    ELSE LastOp("send", result = "true", FALSE)

\* the loader has moved on to l
LoaderTo(l) ==
    /\ loader' = l
    /\ UNCHANGED <<now, config, pairingState, bindings, tracker, delivered,
                   call, sent, reconnect, failover, cleanup_task, webhook>>

\* loader.discover()
Discover(results) ==
    /\ Len(loader.instances)
          + Cardinality({p \in DOMAIN results : results[p] = "loaded"})
          <= MaxInstances
    /\ LoaderTo(DiscoverOutcome(results))

\* await loader.start_all(handler)
StartAll(wiring) == LoaderTo(StartAllOutcome(wiring))

\* the start task of instance i runs on, or ends with an exception
StartTask(i, result) ==
    /\ loader.instances[i].status \in {"starting", "running"}
    /\ LoaderTo(StartTaskOutcome(i, result))

\* await loader.stop_all()
StopAll(stopping) == LoaderTo(StopAllOutcome(stopping))

\* await loader.send(channel_id, to, content)
SendVia(channel, result) ==
    LoaderTo([loader EXCEPT !.last = LoaderSend(channel, result)])

(* --------------------------- specifications ---------------------------- *)

\* the adapters' sends and reconnect loops, the failover and the plugin
\* loader as constructed, untouched
ServicesIdle ==
    /\ sent = NoSend
    /\ reconnect = ReconnectLoop("telegram")
    /\ failover = NoFailover
    /\ loader = NoLoader
    /\ cleanup_task = "none"
    /\ webhook = NoWebhook

\* DMPolicy(): mode "all", no allow_from
DefaultDMPolicy == [mode |-> "all", allow_from |-> << >>]

NoBindings == << >>

\* ThreadBindingManager(ttl_hours=24.0) in DiscordChannelAdapter.__init__
DefaultTTLHours == 24

\* PairingManager(policy, owner_user_id, data_dir, max_pending_per_channel)
\* on a data directory without an allowlist file
InitPairing ==
    /\ now = 0
    /\ policy \in Policies
    /\ owner_user_id \in {NoUser, 1}
    /\ max_pending \in 1..MaxPendingBound
    /\ file = NoFile
    /\ pending = << >>
    /\ allowlist = LoadAllowed(file)
    /\ blocklist = LoadBlocked(file)
    /\ dm_policy = DefaultDMPolicy
    /\ bindings = NoBindings
    /\ respond_to_dms = TRUE
    /\ respond_to_mentions = TRUE
    /\ disk_writable \in BOOLEAN
    /\ delivered = None
    /\ call = Call("init", "", "none")
    /\ ServicesIdle
    /\ ttl_hours = DefaultTTLHours
    /\ code_ttl \in {DefaultCodeTTL, 2 * DefaultCodeTTL}
    /\ react_fn = TRUE
    /\ unreact_fn = TRUE
    /\ current_phase = None
    /\ reactions = << >>

NextPairing ==
    \/ \E s \in Users, c \in Channels : CreateRequest(s, c)
    \/ \E code \in InputCodes : ApproveCode(code)
    \/ \E code \in InputCodes : DenyCode(code)
    \/ \E u \in Users : Revoke(u)
    \/ \E u \in Users : Block(u)
    \/ Tick

SpecPairing == InitPairing /\ [][NextPairing]_vars

\* PairingManager's default max_pending_per_channel
DefaultMaxPending == 3

\* the DMPolicy values the host may have registered for "discord"
DMPolicies ==
    {DefaultDMPolicy,
     [mode |-> "owner_only", allow_from |-> <<1>>],
     [mode |-> "none", allow_from |-> << >>]}

\* DiscordChannelAdapter(owner_user_id, respond_to_dms, respond_to_mentions)
\* builds PairingManager(policy="owner", owner_user_id); the policy attribute
\* may have been set to any of the four policies since
InitDiscord ==
    /\ now = 0
    /\ policy \in Policies
    /\ owner_user_id \in {NoUser, 1}
    /\ max_pending = DefaultMaxPending
    /\ file = NoFile
    /\ pending = << >>
    /\ allowlist = LoadAllowed(file)
    /\ blocklist = LoadBlocked(file)
    /\ dm_policy \in DMPolicies
    /\ bindings = NoBindings
    /\ respond_to_dms \in BOOLEAN
    /\ respond_to_mentions = TRUE
    /\ disk_writable = TRUE
    /\ delivered = None
    /\ call = Call("init", "", "none")
    /\ ServicesIdle
    /\ ttl_hours = DefaultTTLHours
    /\ code_ttl = DefaultCodeTTL
    /\ react_fn = TRUE
    /\ unreact_fn = TRUE
    /\ current_phase = None
    /\ reactions = << >>

NextDiscord ==
    \/ \E msg \in Messages : OnMessage(msg)
    \/ \E u \in Users, code \in InputCodes : CmdApprove(u, code)
    \/ \E t \in Channels, u \in Users : Bind(t, "agent", u, NoGuild)

SpecDiscord == InitDiscord /\ [][NextDiscord]_vars

\* the TTLs a ThreadBindingManager is built with: 0 (never expire) and up
TTLHours == 0..MaxTTLHours

\* ThreadBindingManager(ttl_hours) on its own
InitThreads ==
    /\ now = 0
    /\ policy = "owner"
    /\ owner_user_id = NoUser
    /\ max_pending = DefaultMaxPending
    /\ file = NoFile
    /\ pending = << >>
    /\ allowlist = LoadAllowed(file)
    /\ blocklist = LoadBlocked(file)
    /\ dm_policy = DefaultDMPolicy
    /\ bindings = NoBindings
    /\ respond_to_dms = TRUE
    /\ respond_to_mentions = TRUE
    /\ disk_writable = TRUE
    /\ delivered = None
    /\ call = Call("init", "", "none")
    /\ ServicesIdle
    /\ ttl_hours \in TTLHours
    /\ code_ttl = DefaultCodeTTL
    /\ react_fn = TRUE
    /\ unreact_fn = TRUE
    /\ current_phase = None
    /\ reactions = << >>

NextThreads ==
    \/ \E t \in Channels, target \in Targets, u \in Users :
          Bind(t, target, u, GuildOf(t))
    \/ \E t \in Channels : Unbind(t)
    \/ \E t \in Channels : GetBindingCall(t)
    \/ \E t \in Channels : TouchCall(t)
    \/ \E g \in Guilds \cup {NoGuild}, u \in Users \cup {NoUser} :
          ListBindingsCall(g, u)
    \/ \E target \in Targets : GetBindingsForTargetCall(target)
    \/ GetTargetsCall
    \/ Sweep
    \/ StartCleanupLoop
    \/ \E on_expire \in {"unset", "ok", "raise"}, fault \in BOOLEAN,
          popped \in SUBSET DOMAIN bindings :
          CleanupLoopRound(on_expire, fault, popped)
    \/ BackoffEnds
    \/ StopCleanupLoop
    \/ Tick

SpecThreads == InitThreads /\ [][NextThreads]_vars

\* LifecycleTracker(channel_id, message_ref, react_fn, unreact_fn) on its own
InitTracker ==
    /\ now = 0
    /\ policy = "owner"
    /\ owner_user_id = NoUser
    /\ max_pending = DefaultMaxPending
    /\ file = NoFile
    /\ pending = << >>
    /\ allowlist = LoadAllowed(file)
    /\ blocklist = LoadBlocked(file)
    /\ dm_policy = DefaultDMPolicy
    /\ bindings = NoBindings
    /\ respond_to_dms = TRUE
    /\ respond_to_mentions = TRUE
    /\ disk_writable = TRUE
    /\ delivered = None
    /\ call = Call("init", "", "none")
    /\ ServicesIdle
    /\ ttl_hours = DefaultTTLHours
    /\ code_ttl = DefaultCodeTTL
    /\ react_fn \in BOOLEAN
    /\ unreact_fn \in BOOLEAN
    /\ current_phase = None
    /\ reactions = << >>

NextTracker ==
    \/ \E name \in PhaseNames : Phase(name)
    \/ Done
    \/ Error
    \/ \E adapter \in {"discord", "telegram", "slack"},
          typing \in CallbackResults, dispatch \in CallbackResults :
          HandleMessage(adapter, typing, dispatch)

SpecTracker == InitTracker /\ [][NextTracker]_vars

\* the pairing manager, the Discord adapter, the thread bindings and the
\* tracker as constructed, untouched
KernelIdle ==
    /\ now = 0
    /\ policy = "owner"
    /\ owner_user_id = NoUser
    /\ max_pending = DefaultMaxPending
    /\ file = NoFile
    /\ pending = << >>
    /\ allowlist = LoadAllowed(file)
    /\ blocklist = LoadBlocked(file)
    /\ dm_policy = DefaultDMPolicy
    /\ bindings = NoBindings
    /\ respond_to_dms = TRUE
    /\ respond_to_mentions = TRUE
    /\ disk_writable = TRUE
    /\ delivered = None
    /\ call = Call("init", "", "none")
    /\ ttl_hours = DefaultTTLHours
    /\ code_ttl = DefaultCodeTTL
    /\ react_fn = TRUE
    /\ unreact_fn = TRUE
    /\ current_phase = None
    /\ reactions = << >>

\* everything as constructed, untouched
InitIdle ==
    /\ KernelIdle
    /\ ServicesIdle

NextSend ==
    \/ /\ sent = NoSend
       /\ \E kind \in {"slack", "matrix", "telegram", "discord"} :
             \E client \in Clients(kind), to \in SendTargets,
                stop_during \in 0..(MAX_RETRIES - 1),
                results \in [1..MAX_RETRIES -> AttemptResults] :
                 Send(kind, client, to, stop_during, results)
    \/ OnReady
    \/ ResumeSend

\* an adapter's send_message on its own
SpecSend == InitIdle /\ [][NextSend]_vars

\* the same where the event loop runs every coroutine that is able to go
\* on: a client that is starting becomes ready, and a send whose wait for
\* ready is over goes on
FairSpecSend == SpecSend /\ WF_vars(OnReady) /\ WF_vars(ResumeSend)

\* the generic webhook on its own, in every deployment
InitWebhook ==
    /\ KernelIdle
    /\ sent = NoSend
    /\ reconnect = ReconnectLoop("telegram")
    /\ failover = NoFailover
    /\ loader = NoLoader
    /\ cleanup_task = "none"
    /\ webhook \in {Deployment(env, auth_token_env, loaded) :
                      env \in [EnvNames -> SecretValues],
                      auth_token_env \in EnvNames, loaded \in BOOLEAN}

NextWebhook ==
    \E header \in AuthHeaders, message \in WebhookMessages :
        PostWebhook(header, message)

SpecWebhook == InitWebhook /\ [][NextWebhook]_vars

\* the background tasks on their own: an adapter's reconnect loop and the
\* cleanup loop of the thread bindings
InitReconnect ==
    /\ KernelIdle
    /\ sent = NoSend
    /\ reconnect \in {ReconnectLoop(kind) : kind \in {"telegram", "slack", "matrix"}}
    /\ failover = NoFailover
    /\ loader = NoLoader
    /\ cleanup_task = "none"
    /\ webhook = NoWebhook

NextReconnect ==
    \/ \E results \in [1..MAX_RETRIES -> AttemptResults] :
          StartAdapter(results)
    \/ LinkIsUp
    \/ Disconnect
    \/ \E succeeds \in BOOLEAN : ReconnectAttempt(succeeds)
    \/ \E at \in {"try", "handler"} : StopReconnecting(at)
    \/ StartCleanupLoop
    \/ \E fault \in BOOLEAN : CleanupLoopRound("unset", fault, {})
    \/ BackoffEnds
    \/ StopCleanupLoop

SpecReconnect == InitReconnect /\ [][NextReconnect]_vars

NextFailover ==
    \E chain_str \in ChainStrings, enabled \in BOOLEAN,
       max_retries \in 0..MaxRetriesPerModel :
        \E results \in
              [1..(Len(ModelsToTry(Primary, chain_str, enabled)) * max_retries)
                  -> CallResults] :
            Failover(chain_str, enabled, max_retries, results)

\* call_with_failover on its own
SpecFailover == InitIdle /\ [][NextFailover]_vars

NextLoader ==
    \/ \E results \in [{Plugins[i] : i \in DOMAIN Plugins} -> {"disabled", "failed", "loaded"}] :
          Discover(results)
    \/ \E wiring \in [ChannelIds -> {"ok", "raise"}] : StartAll(wiring)
    \/ \E i \in DOMAIN loader.instances, result \in {"running", "crashed"} :
          StartTask(i, result)
    \/ \E stopping \in [ChannelIds -> {"ok", "raise"}] : StopAll(stopping)
    \/ \E channel \in ChannelIds \cup {"email"}, result \in SendResults :
          SendVia(channel, result)

\* PluginLoader on its own
SpecLoader == InitIdle /\ [][NextLoader]_vars

(* ------------------------------ claims --------------------------------- *)

\* a request that has not reached its expiry time
Live(req) == now < req.expires_at

\* the codes of the live requests of a sender, and of a channel
LiveCodesOfSender(sender) ==
    {c \in DOMAIN pending : pending[c].sender_id = sender /\ Live(pending[c])}
LiveCodesOfChannel(channel) ==
    {c \in DOMAIN pending : pending[c].channel_id = channel /\ Live(pending[c])}

\* every result create_request, approve_code or deny_code can have here
PairingCallOutcomes ==
    UNION ({CreateRequestOutcomes(u, ch) : u \in Users, ch \in Channels}
           \cup {ApproveCodeOutcomes(code) : code \in InputCodes}
           \cup {DenyCodeOutcomes(code) : code \in InputCodes})

\* C1: a direct message is handed to the host handler only if its sender is
\* authorized under the configured DM policy (under "owner": only the owner).
DMDispatchedOnlyIfAuthorized ==
    \A m \in ToSet(delivered) : m.is_dm => IsAuthorized(m.author_id)

\* C2: no sender id is in both the allowlist and the blocklist.
AllowBlockDisjoint == allowlist \cap blocklist = {}

\* C3: under the "pairing" policy, approve_code with the code of a live
\* pending request returns the request, puts its sender into the allowlist
\* and removes the pending entry, and is_authorized(sender) is true from then
\* on until a revoke or a block: every sender in the allowlist is authorized,
\* and create_request, approve_code and deny_code take nobody out of it.
ApproveGrantsAccess ==
    policy = "pairing" =>
        /\ \A code \in InputCodes :
              LET key == NormalizeCode(code)
              IN  (key \in DOMAIN pending /\ Live(pending[key])) =>
                     \A o \in ApproveCodeOutcomes(code) :
                        /\ o.ret = Some(pending[key])
                        /\ pending[key].sender_id \in o.allowlist
                        /\ key \notin DOMAIN o.pending
        /\ \A u \in allowlist : IsAuthorized(u)
        /\ \A o \in PairingCallOutcomes : allowlist \subseteq o.allowlist

\* C3 witness: under "pairing" an approval has just put a blocked sender, who
\* is not the owner, into the allowlist
ApprovedUnderPairing ==
    /\ policy = "pairing"
    /\ call.op = "approve_code" /\ call.path = "approved"
    /\ (allowlist \cap blocklist) \ {owner_user_id} # {}

\* C4: approve_code at or after a request's expiry time returns nothing,
\* leaves the allowlist and the blocklist unchanged and removes the expired
\* entry.
ExpiredNeverApprovable ==
    \A code \in InputCodes :
        LET key == NormalizeCode(code)
        IN  (key \in DOMAIN pending /\ now >= pending[key].expires_at) =>
               \A o \in ApproveCodeOutcomes(code) :
                  /\ o.ret = None
                  /\ o.allowlist = allowlist
                  /\ o.blocklist = blocklist
                  /\ key \notin DOMAIN o.pending

\* C4 witness: approve_code has just purged an expired request
ExpiredCodePurged ==
    call.op = "approve_code" /\ call.path = "expired"

\* C5: approve_code with a code that is not pending returns nothing and
\* leaves the allowlist, the blocklist and the pending set as they were.
ApproveUnknownCodeIsNoOp ==
    \A code \in InputCodes :
        NormalizeCode(code) \notin DOMAIN pending =>
           \A o \in ApproveCodeOutcomes(code) :
              /\ o.ret = None
              /\ o.pending = pending
              /\ o.allowlist = allowlist
              /\ o.blocklist = blocklist

\* C5 witness: approve_code has just found no request under the code, after an
\* earlier approval, while an expired request is still stored
UnknownCodeRejected ==
    /\ call.op = "approve_code" /\ call.path = "missing"
    /\ allowlist # {}
    /\ \E c \in DOMAIN pending : ~Live(pending[c])

\* C6: the pending set holds at most one live request per sender id.
OneLiveRequestPerSender ==
    \A u \in Users : Cardinality(LiveCodesOfSender(u)) <= 1

\* C6 witness: create_request has just refused a sender who holds a live
\* request
DuplicateRequestRefused ==
    /\ call.op = "create_request" /\ call.path = "duplicate"
    /\ \E u \in Users : LiveCodesOfSender(u) # {}

\* C7: no channel ever holds more than max_pending live requests;
\* create_request for a channel that holds max_pending live requests returns
\* nothing and adds none; expired requests do not count: a sender who is
\* neither authorized nor waiting gets a request on a channel with fewer live
\* requests.
ChannelLimitHolds ==
    /\ \A ch \in Channels : Cardinality(LiveCodesOfChannel(ch)) <= max_pending
    /\ \A u \in Users, ch \in Channels :
          \A o \in CreateRequestOutcomes(u, ch) :
              /\ Cardinality(LiveCodesOfChannel(ch)) >= max_pending =>
                    o.ret = None /\ DOMAIN o.pending \subseteq DOMAIN pending
              /\ (/\ Cardinality(LiveCodesOfChannel(ch)) < max_pending
                  /\ ~IsAuthorized(u)
                  /\ LiveCodesOfSender(u) = {}) => o.ret # None

\* C7 witness: create_request has just refused a request because the channel
\* is full
ChannelLimitReached ==
    /\ call.op = "create_request" /\ call.path = "limit"
    /\ \E ch \in Channels : Cardinality(LiveCodesOfChannel(ch)) = max_pending

\* C8: create_request for a sender who is authorized or holds a live request
\* returns nothing and leaves the pending set, the allowlist and the
\* blocklist unchanged.
CreateRequestNoOp ==
    \A u \in Users, ch \in Channels :
        (IsAuthorized(u) \/ LiveCodesOfSender(u) # {}) =>
           \A o \in CreateRequestOutcomes(u, ch) :
              /\ o.ret = None
              /\ o.pending = pending
              /\ o.allowlist = allowlist
              /\ o.blocklist = blocklist

\* C8 witness: create_request has just returned nothing to an authorized
\* sender while an expired request was still stored
AuthorizedSenderRefused ==
    /\ call.op = "create_request" /\ call.path = "authorized"
    /\ \E c \in DOMAIN pending : ~Live(pending[c])

\* C9: a code issued by create_request is none of the codes pending when it is
\* issued: every request is stored under its own code, and create_request
\* never issues the code of a live pending request nor replaces one.
IssuedCodeIsFresh ==
    /\ \A c \in DOMAIN pending : pending[c].code = c
    /\ \A u \in Users, ch \in Channels :
          \A o \in CreateRequestOutcomes(u, ch) :
             /\ o.ret # None =>
                   ~(\E c \in DOMAIN pending :
                        Live(pending[c]) /\ c = o.ret[1].code)
             /\ \A c \in DOMAIN pending :
                   Live(pending[c]) =>
                       c \in DOMAIN o.pending /\ o.pending[c] = pending[c]

\* C9 witness: create_request has just issued a code while another request
\* was pending
SecondCodeIssued ==
    /\ call.op = "create_request" /\ call.path = "created"
    /\ Cardinality(DOMAIN pending) >= 2

\* C10: after approve_code, revoke or block has changed the lists (block also
\* for a sender who was not in the allowlist) and no write failed, the
\* persisted document equals the in-memory allowlist and blocklist.
PersistedEqualsMemory ==
    (/\ \/ call.op = "approve_code" /\ call.path = "approved"
        \/ call.op = "revoke" /\ call.path = "revoked"
        \/ call.op = "block"
     /\ call.saved # "fail")
    => /\ file.exists
       /\ ToSet(file.allowed) = allowlist
       /\ ToSet(file.blocked) = blocklist


(* ----------------------- claims: thread bindings ------------------------ *)

\* seconds since the binding's last activity
Idle(b) == now - b.last_active

\* C11: the store holds one binding per thread id: bind on a bound thread
\* replaces the binding (new target and creator, message_count 0) without
\* changing the number of bindings, and unbind leaves the thread unbound.
BindReplaces ==
    \A t \in Channels :
        /\ \A target \in Targets, u \in Users :
              LET b == BindThread(t, target, u, GuildOf(t))
              IN  /\ t \in DOMAIN b
                  /\ b[t].target = target
                  /\ b[t].user_id = u
                  /\ b[t].message_count = 0
                  /\ t \in DOMAIN bindings => Cardinality(DOMAIN b) = Count
                  /\ \A k \in DOMAIN bindings \ {t} :
                        k \in DOMAIN b /\ b[k] = bindings[k]
        /\ t \notin DOMAIN UnbindThread(t)
        /\ call = Call("unbind", "removed", "none") /\ t \notin DOMAIN bindings
              => GetBinding(t) = None

\* a bound thread has been bound again
ThreadRebound == call = Call("bind", "rebound", "none")

\* C12: with a TTL t > 0 a sweep removes exactly the bindings idle for at
\* least t hours, which list_bindings() then no longer returns, and keeps the
\* others as they are; with t = 0 a sweep removes nothing.
SweepRemovesExactlyStale ==
    /\ ttl_hours > 0 =>
          \A k \in DOMAIN bindings :
              IF Idle(bindings[k]) >= ttl_hours * SecondsPerHour
              THEN k \notin DOMAIN ExpireStale
              ELSE k \in DOMAIN ExpireStale /\ ExpireStale[k] = bindings[k]
    /\ ttl_hours = 0 => ExpireStale = bindings
    /\ call.op = "expire_stale" /\ ttl_hours > 0 =>
          \A b \in ListBindings(NoGuild, NoUser) :
              Idle(b) < ttl_hours * SecondsPerHour

\* a sweep has removed a binding
SweepExpired == call = Call("expire_stale", "expired", "none")

\* C13: list_bindings, get_bindings_for_target and get_targets return no
\* binding that is expired at the time of the call.
QueriesReturnOnlyLive ==
    /\ \A b \in ListBindings(NoGuild, NoUser) :
          ~BindingIsExpired(b, ttl_hours, now)
    /\ \A target \in Targets :
          \A b \in GetBindingsForTarget(target) :
              ~BindingIsExpired(b, ttl_hours, now)
    /\ \A target \in GetTargets :
          \E k \in DOMAIN bindings :
              /\ bindings[k].target = target
              /\ ~BindingIsExpired(bindings[k], ttl_hours, now)

\* C14: once a binding's idle time has reached the positive TTL, get_binding
\* does not return it and touch does not refresh it.
ExpiredBindingIsGone ==
    \A t \in DOMAIN bindings :
        BindingIsExpired(bindings[t], ttl_hours, now)
            => GetBinding(t) = None /\ Touch(t) = bindings

\* C15: get_binding leaves the whole store as it is, for every thread id.
GetBindingIsPure ==
    \A t \in Channels :
        /\ AfterGetBinding(t) = bindings
        /\ \A k \in DOMAIN bindings :
              /\ AfterGetBinding(t)[k].last_active = bindings[k].last_active
              /\ AfterGetBinding(t)[k].message_count = bindings[k].message_count

\* get_binding has found a binding
BoundThreadLookedUp == call = Call("get_binding", "found", "none")

\* C16: a message that on_message does not hand to the host handler leaves
\* every binding's last_active and message_count as they were.
UndispatchedMessageDoesNotTouch ==
    \A msg \in Messages :
        \A o \in OnMessageOutcomes(msg) :
            o.delivered = None => o.bindings = bindings

(* ------------------------ claims: lifecycle tracker --------------------- *)

\* C17: on a tracker with both callbacks whose phase is a, phase(b) for
\* another valid phase b makes one "remove" invocation for a, then one "add"
\* invocation for b, and leaves b as the current phase.
TransitionRemovesThenAdds ==
    react_fn /\ unreact_fn =>
        \A a \in Phases, b \in Phases :
            current_phase = Some(a) /\ a # b =>
                \A o \in PhaseOutcomes(b) :
                    /\ Len(o.reactions) = 2
                    /\ o.reactions[1].fn = "remove"
                    /\ o.reactions[1].emoji = Emoji(a)[1]
                    /\ o.reactions[2].fn = "add"
                    /\ o.reactions[2].emoji = Emoji(b)[1]
                    /\ o.current_phase = Some(b)

\* phase() has moved a tracker with both callbacks from one phase to another
PhaseChanged ==
    /\ react_fn /\ unreact_fn
    /\ call.op = "phase"
    /\ Len(reactions) = 2
    /\ reactions[1].fn = "remove"
    /\ reactions[2].fn = "add"
    /\ current_phase = Some(reactions[2].emoji)

\* C18: calling phase() with the tracker's current phase invokes neither
\* callback.
SamePhaseAddsNothing ==
    \A a \in Phases :
        current_phase = Some(a) =>
            \A o \in PhaseOutcomes(a) : o.reactions = << >>

\* C19: phase(name) with a valid name never raises, whatever the callbacks
\* do; the new phase is current afterwards, and the "add" for it is invoked
\* even when the "remove" raised.
CallbackFailuresAreSwallowed ==
    \A name \in Phases :
        \A o \in PhaseOutcomes(name) :
            /\ ~o.raised
            /\ o.current_phase = Some(name)
            /\ react_fn =>
                  /\ o.reactions # << >>
                  /\ o.reactions[Len(o.reactions)].fn = "add"
                  /\ o.reactions[Len(o.reactions)].emoji = Emoji(name)[1]

\* the "remove" callback raised and the "add" was invoked all the same
RemoveFailedAddStillMade ==
    /\ Len(reactions) = 2
    /\ reactions[1].fn = "remove"
    /\ reactions[1].result = "raise"
    /\ reactions[2].fn = "add"
    /\ current_phase = Some(reactions[2].emoji)

\* the place of a phase in queued, thinking, tool_use (0 for the others)
Rank(name) ==
    CASE name = "queued" -> 1
      [] name = "thinking" -> 2
      [] name = "tool_use" -> 3
      [] OTHER -> 0

\* a move of the current phase from p to q that the linear order allows
Forward(p, q) ==
    \/ p = q
    \/ p = None
    \/ q \in {Some("done"), Some("error")}
    \/ /\ p \notin {Some("done"), Some("error")}
       /\ q = Some("streaming") \/ p = Some("streaming")
              \/ Rank(p[1]) < Rank(q[1])

\* C20: no phase() call moves the current phase backwards in queued,
\* thinking, tool_use, or out of done or error into another phase.
PhaseOnlyMovesForward ==
    \A name \in PhaseNames :
        \A o \in PhaseOutcomes(name) : Forward(current_phase, o.current_phase)

(* ------------------- claims: dispatch, retry, failover ------------------ *)

\* C21: when the host's handler raises on a dispatched message, the
\* message's tracker ends in the "error" phase.
HandlerFailureEndsInError ==
    call = Call("on_message", "handler_raised", "none")
        => current_phase = Some("error")

\* an attempt that failed with an overload error, and one that failed with a
\* permanent error
Overloaded(r) == ~r.ok /\ r.text \in {ErrorText.unavailable, ErrorText.overloaded}
Denied(r) == ~r.ok /\ r.retry_after = 0 /\ r.text = ErrorText.denied

\* C22: a send whose three attempts all fail with an overload error makes
\* three attempts, sleeps 2 s and then 4 s, and returns False; a send whose
\* first attempt fails with a permanent error makes that one attempt, does
\* not sleep, and returns False.
RetryBackoffSchedule ==
    sent.ready =>
        /\ (\A i \in DOMAIN sent.results : Overloaded(sent.results[i]))
              => sent.attempts = 3 /\ sent.sleeps = <<2, 4>> /\ ~sent.ret
        /\ Denied(sent.results[1])
              => sent.attempts = 1 /\ sent.sleeps = << >> /\ ~sent.ret

\* a send has failed three times with an overload error
SendGaveUpAfterRetries ==
    /\ sent.ready
    /\ \A i \in DOMAIN sent.results : Overloaded(sent.results[i])
    /\ sent.attempts = MAX_RETRIES
    /\ ~sent.ret

\* C23: while the link is down, the delay the reconnect loop waits next is
\* min(5 * 2^k, 300) for k failed reconnects since the link was last up.
ReconnectDelayIsBackoff ==
    reconnect.should_reconnect /\ ~reconnect.connected =>
        reconnect.delay = Min(RECONNECT_INITIAL_DELAY * Pow2(reconnect.failures),
                              RECONNECT_MAX_DELAY)

\* the calls of the last call_with_failover
FailoverCalls == CallsOf(failover.events)

\* a call that failed with a transient error, and one with a permanent error
Transient(e) == e.kind = "call" /\ ~e.result.ok /\ e.result.text = ErrorText.too_many
Permanent(e) == e.kind = "call" /\ ~e.result.ok /\ e.result.text = ErrorText.denied

\* C24: call_with_failover calls the primary first and then the entries of
\* the parsed chain in their order, each at most max_retries_per_model times
\* and only after every earlier call failed; a transient failure that uses
\* up an entry's retries is followed by a call on the next entry; the first
\* call that succeeds is the last one and its result is returned.
FailoverTriesInOrder ==
    failover.ran =>
        LET calls == FailoverCalls
            last == Len(calls)
        IN  /\ calls # << >> =>
                  calls[1].idx = 1 /\ calls[1].attempt = 0
                      /\ calls[1].model = Primary
            /\ failover.chain_str = <<"p1", ":", "m1", ",", " ", "p2", ":", "m2">>
                  /\ failover.enabled =>
                  failover.models = <<Primary, Model(<<"p1">>, <<"m1">>),
                                      Model(<<"p2">>, <<"m2">>)>>
            /\ \A i \in DOMAIN calls :
                  /\ calls[i].idx \in DOMAIN failover.models
                  /\ calls[i].model = failover.models[calls[i].idx]
                  /\ calls[i].attempt < failover.max_retries
                  /\ i < last => ~calls[i].result.ok
                  /\ i < last =>
                        \/ /\ calls[i + 1].idx = calls[i].idx
                           /\ calls[i + 1].attempt = calls[i].attempt + 1
                        \/ /\ calls[i + 1].idx = calls[i].idx + 1
                           /\ calls[i + 1].attempt = 0
                           /\ \/ Permanent(calls[i])
                              \/ calls[i].attempt = failover.max_retries - 1
                  /\ Transient(calls[i])
                        /\ calls[i].attempt = failover.max_retries - 1
                        /\ calls[i].idx < Len(failover.models)
                        => i < last /\ calls[i + 1].idx = calls[i].idx + 1
                  /\ calls[i].result.ok =>
                        /\ i = last
                        /\ failover.returned = Some(i)
                        /\ failover.raised = None

\* the primary used up its two tries on transient errors and the first
\* entry of the chain answered
FailedOverToChain ==
    /\ failover.ran
    /\ failover.max_retries = 2
    /\ Len(FailoverCalls) = 3
    /\ Transient(FailoverCalls[1])
    /\ Transient(FailoverCalls[2])
    /\ FailoverCalls[3].idx = 2
    /\ FailoverCalls[3].result.ok
    /\ failover.returned = Some(3)

\* C25: a call that fails with a permanent error is the last event of its
\* entry: the next event, if any, is the first call on the next entry, with
\* no sleep and no further call on the same entry in between.
PermanentErrorEndsEntry ==
    failover.ran =>
        \A i \in DOMAIN failover.events :
            Permanent(failover.events[i]) =>
                IF failover.events[i].idx < Len(failover.models)
                THEN /\ i < Len(failover.events)
                     /\ failover.events[i + 1].kind = "call"
                     /\ failover.events[i + 1].idx = failover.events[i].idx + 1
                     /\ failover.events[i + 1].attempt = 0
                ELSE i = Len(failover.events)

\* a permanent error on the primary's first try, with a try to spare, was
\* followed by a call on the first entry of the chain
PermanentErrorSkippedRetries ==
    /\ failover.ran
    /\ failover.max_retries = 2
    /\ Len(failover.events) >= 2
    /\ Permanent(failover.events[1])
    /\ failover.events[2].kind = "call"
    /\ failover.events[2].idx = 2

\* C26: when no call succeeds, call_with_failover raises the error raised by
\* the last call it made.
LastErrorReraised ==
    failover.ran /\ failover.returned = None =>
        /\ FailoverCalls # << >>
        /\ failover.raised =
              Some(ErrorOf(Len(FailoverCalls),
                           FailoverCalls[Len(FailoverCalls)].result))

\* C27: the adapters' _is_overload_error and the failover's _is_retriable
\* give the same verdict on the error of every failed send attempt.
SendClassifiesAsFailover ==
    \A i \in DOMAIN sent.results :
        ~sent.results[i].ok =>
            IsOverloadError(sent.results[i].text)
                = IsRetriable(sent.results[i].text)

(* -------------------------- claims: plugin loader ----------------------- *)

\* C28: PluginLoader.send never raises, and returns True exactly when the
\* channel is registered and its adapter's send_message returned True.
LoaderSendNeverRaises ==
    \A channel \in ChannelIds \cup {"email"}, result \in SendResults :
        LET o == LoaderSend(channel, result)
        IN  /\ ~o.raised
            /\ o.ret = (channel \in DOMAIN loader.channels /\ result = "true")

\* a send on a registered channel has returned False
SendFailedOnRegisteredChannel ==
    /\ loader.last = LastOp("send", FALSE, FALSE)
    /\ DOMAIN loader.channels # {}

\* the adapters whose start task has been created and has not ended
LiveAdapters == {i \in DOMAIN loader.instances :
            loader.instances[i].status \in {"starting", "running"}}

\* C29: start_all does not raise; it sets the callback of, and creates the
\* start task for, every registered adapter whose wiring does not raise,
\* whatever happens at the other adapters; a start task that ends with an
\* exception changes no other adapter.
StartAllStartsEveryAdapter ==
    /\ \A wiring \in [ChannelIds -> {"ok", "raise"}] :
          LET o == StartAllOutcome(wiring)
          IN  /\ ~o.last.raised
              /\ o.started
              /\ \A ch \in DOMAIN loader.channels :
                    wiring[ch] = "ok" =>
                        /\ o.instances[loader.channels[ch]].callback
                        /\ o.instances[loader.channels[ch]].status = "starting"
    /\ \A i \in LiveAdapters :
          LET o == StartTaskOutcome(i, "crashed")
          IN  /\ ~o.last.raised
              /\ \A j \in DOMAIN loader.instances \ {i} :
                    o.instances[j] = loader.instances[j]

\* one registered adapter's start has raised while the other's is running
OneCrashedOtherRunning ==
    /\ DOMAIN loader.channels = ChannelIds
    /\ \E ch \in ChannelIds :
          loader.instances[loader.channels[ch]].status = "crashed"
    /\ \E ch \in ChannelIds :
          loader.instances[loader.channels[ch]].status = "running"

\* C30: every adapter instance that was started and not stopped is the one
\* registered for its channel id, so no channel id has two of them.
OneInstancePerChannel ==
    \A i \in LiveAdapters :
        loader.channels[loader.instances[i].channel] = i

(* --------------------- claims: pairing TTL, blocked senders -------------- *)

\* C38: every pending request expires at its creation time plus the
\* manager's configured code TTL.
RequestExpiresAfterConfiguredTTL ==
    \A c \in DOMAIN pending :
        pending[c].expires_at = pending[c].created_at + code_ttl

\* a blocked sender whom create_request would treat like an unknown one
BlockedUnknown(u, ch) ==
    /\ u \in blocklist
    /\ u \notin allowlist
    /\ u # owner_user_id
    /\ ~HasPendingRequest(u)
    /\ ~ChannelAtLimit(CleanupExpired(pending, now), ch)
    /\ FreshCodes(CleanupExpired(pending, now)) # {}

TaskEnded == {"none", "returned", "cancelled"}

\* C34: shutdown ends the background tasks. After stop_cleanup_loop
\* returned the cleanup task has terminated, and after an adapter's stop()
\* the reconnect task has, wherever the loop was waiting when it was
\* cancelled; a terminated cleanup task runs no further round and a
\* reconnect task that is not running makes no further reconnect attempt.
ShutdownEndsTasks ==
    /\ [](/\ call.op = "stop_cleanup_loop" => cleanup_task \in TaskEnded
          /\ ~reconnect.should_reconnect => reconnect.monitor \in TaskEnded)
    /\ [][/\ cleanup_task \in TaskEnded /\ call' # call =>
                call'.op \in {"start_cleanup_loop", "stop_cleanup_loop"}
          /\ reconnect.monitor # "running" =>
                /\ reconnect'.waited = reconnect.waited
                /\ reconnect'.failures = reconnect.failures]_vars

\* both loops were stopped while they waited in the sleep of their exception
\* handler
StoppedInHandler ==
    /\ ~reconnect.should_reconnect
    /\ reconnect.monitor = "cancelled"
    /\ call.op = "stop_cleanup_loop"
    /\ cleanup_task = "cancelled"

MonitorRunsAfterStart ==
    reconnect.kind = "telegram" /\ reconnect.started
        /\ reconnect.connected /\ reconnect.should_reconnect =>
        reconnect.monitor = "running"

(* ------------------------ claims: outbound sends ------------------------- *)

\* C32: a send whose target "<kind>:<id>" has a kind the adapter does not
\* know returns False and makes no send attempt.
UnknownKindIsRefused ==
    /\ sent.phase = "returned"
    /\ sent.client = "ready"
    /\ Len(sent.to) > 2 /\ sent.to[2] = ":"
    /\ sent.to[1] \notin KnownKinds(sent.kind)
    => ~sent.ret /\ sent.attempts = 0

\* C33: every call of an adapter's send_message eventually returns.
SendEventuallyReturns ==
    sent.kind # "none" ~> sent.phase = "returned"

\* C35: when the adapter's stop() runs while a send is in its n-th backoff
\* sleep, the send makes no attempt after the n-th and sleeps no further
\* backoff.
BackoffStopsOnShutdown ==
    /\ sent.phase = "returned"
    /\ sent.stop_during > 0
    /\ Len(sent.sleeps) >= sent.stop_during
    => sent.attempts = sent.stop_during
          /\ Len(sent.sleeps) = sent.stop_during

(* ------------------------ claims: inbound pipeline ----------------------- *)

\* C37: when an adapter's handler has ended for a message whose tracker
\* entered "queued", by returning or by an exception, the tracker is in
\* "done" or "error".
PipelineEndsDoneOrError ==
    call.op = "handle_message" =>
        current_phase \in {Some("done"), Some("error")}

(* ------------------------ claims: generic webhook ------------------------ *)

\* the request is authenticated: no secret is configured, or the header is
\* "Bearer " followed by the secret
Authenticated ==
    \/ webhook.env["WEBHOOK_AUTH_TOKEN"] = << >>
    \/ webhook.header = Bearer(webhook.env["WEBHOOK_AUTH_TOKEN"])

\* C31: with the adapter loaded and reading the same secret as the route, a
\* POST with a non-empty message is dispatched exactly when it is
\* authenticated.
DispatchedIffAuthenticated ==
    /\ webhook.posted
    /\ webhook.loaded
    /\ webhook.auth_token_env = "WEBHOOK_AUTH_TOKEN"
    /\ webhook.message # << >>
    => (webhook.dispatched <=> Authenticated)

====
